---- MODULE Spec2Model ----
(***************************************************************************)
(* A state-machine model of the 8bitrs game core: the skill/experience     *)
(* curve (skills.rs), the Inventory and Bank containers (inventory.rs,     *)
(* bank.rs), the bank transfer handlers of the UI (ui.rs) and the          *)
(* pending-action / ongoing-action machine of GameState (main.rs).         *)
(*                                                                         *)
(* Conventions.                                                            *)
(*  - Option<T> is a sequence of length 0 (None) or 1 (Some(x)).           *)
(*  - Vec<Option<Item>> of a container is a function 0..capacity-1 -> slot *)
(*    (source indices are kept, 0-based).                                  *)
(*  - A u32 that can come near its maximum (Skill.experience) is a pair    *)
(*    [hi, lo] of 16-bit halves, so that the 32-bit width is kept.         *)
(*  - Times are integers in units of 0.01 s.                               *)
(***************************************************************************)
EXTENDS Integers, Sequences, FiniteSets, TLC

VARIABLES
    skills,                  \* GameState.skills : skill name -> [level, experience]
    steps,                   \* number of API calls made (bounds the skill runs)
    panicked,                \* TRUE once the process aborted on a Rust panic
    subject,                 \* which container the container runs exercise
    inventory,               \* GameState.inventory.items
    bank,                    \* GameState.bank.items
    last,                    \* the last operation: arguments, pre-state, result
    selected_bank_slot,      \* GameUI.selected_bank_slot
    selected_inventory_slot, \* GameUI.selected_inventory_slot
    player_x,                \* GameState.player_x
    player_y,                \* GameState.player_y (0 on the line of the 1-D runs)
    camera_x,                \* GameState.camera_x
    target_x,                \* GameState.target_x
    target_y,                \* GameState.target_y (set and cleared with target_x)
    pending_action,          \* GameState.pending_action
    ongoing_action,          \* GameState.ongoing_action
    action_timer,            \* GameState.action_timer
    entities,                \* GameState.entities
    world_objects,           \* GameState.world_objects
    dropped_items,           \* GameState.dropped_items
    player_combat,           \* GameState.player_combat
    context_menu,            \* GameUI.context_menu
    fishing_spots,           \* GameState.fishing_spots
    fishing_spot_timer,      \* GameState.fishing_spot_timer
    equipment                \* GameState.equipment : [weapon, head, body, legs]

vars == <<skills, steps, panicked, subject, inventory, bank, last,
          selected_bank_slot, selected_inventory_slot,
          player_x, player_y, camera_x, target_x, target_y, pending_action, ongoing_action,
          action_timer, entities, world_objects, dropped_items, player_combat,
          context_menu, fishing_spots, fishing_spot_timer, equipment>>

None == <<>>
Some(x) == <<x>>
IsSome(o) == o # <<>>
Unwrap(o) == o[1]

Max(a, b) == IF a >= b THEN a ELSE b
Min(a, b) == IF a <= b THEN a ELSE b

(***************************************************************************)
(* skills.rs                                                               *)
(***************************************************************************)

\* Half of the u32 width: experience is kept as hi * 2^16 + lo.
HalfWord == 65536

U32(n) == [hi |-> n \div HalfWord, lo |-> n % HalfWord]

\* a + n in u32 arithmetic, with the overflow flag of the unchecked `+=`.
U32Add(a, n) ==
    LET s == a.lo + (n % HalfWord)
        h == a.hi + (n \div HalfWord) + (s \div HalfWord)
    IN  [val |-> [hi |-> h % HalfWord, lo |-> s % HalfWord],
         overflow |-> h >= HalfWord]

\* n > a, for an in-range integer n and a u32 a.
IntGtU32(n, a) ==
    \/ n \div HalfWord > a.hi
    \/ n \div HalfWord = a.hi /\ n % HalfWord > a.lo

\* a <= b on u32 values.
U32Le(a, b) == a.hi < b.hi \/ (a.hi = b.hi /\ a.lo <= b.lo)

SkillNames == {"attack", "strength", "defense", "woodcutting",
               "firemaking", "fishing", "cooking"}

\* ((level as f64 + 300.0 * 2.0_f64.powf(level as f64 / 7.0)) / 4.0) as u32
\* for level = 1..98 (TLA+ has no floating point: the expression of line 95
\* evaluated at each level the loop can reach).
XpTable ==
    <<83, 91, 101, 112, 124, 137, 151, 167, 185, 204, 225, 249, 274, 303,
      334, 369, 408, 450, 496, 548, 605, 667, 737, 813, 897, 990, 1093, 1207,
      1332, 1470, 1622, 1791, 1977, 2182, 2408, 2658, 2934, 3239, 3576, 3947,
      4357, 4810, 5310, 5862, 6471, 7144, 7886, 8706, 9612, 10611, 11715,
      12933, 14278, 15763, 17403, 19214, 21212, 23419, 25856, 28546, 31516,
      34795, 38415, 42413, 46826, 51699, 57078, 63018, 69576, 76817, 84811,
      93638, 103383, 114142, 126022, 139138, 153619, 169607, 187260, 206750,
      228268, 252027, 278259, 307221, 339197, 374502, 413482, 456519, 504036,
      556499, 614422, 678375, 748985, 826944, 913018, 1008052, 1112977,
      1228824>>

MaxLevel == 99

SkillNew == [level |-> 1, experience |-> U32(0)]

SkillsNew == [s \in SkillNames |-> SkillNew]

RECURSIVE UpdateLevelLoop(_, _, _)
\* The while loop of update_level, from (level, points).
UpdateLevelLoop(level, points, experience) ==
    IF level < MaxLevel
    THEN LET p == points + XpTable[level]
         IN  IF IntGtU32(p, experience)
             THEN level
             ELSE UpdateLevelLoop(level + 1, p, experience)
    ELSE level

\* The off-by-one variant `points >= self.experience`.
UpdateLevelStrict(experience) ==
    LET RECURSIVE Loop(_, _)
        Loop(level, points) ==
            IF level < MaxLevel
            THEN LET p == points + XpTable[level]
                 IN  IF IntGtU32(p, experience) \/ U32(p) = experience
                     THEN level
                     ELSE Loop(level + 1, p)
            ELSE level
    IN  Loop(1, 0)

\* Skill::update_level: the level stored for `experience`.
UpdateLevel(experience) == UpdateLevelLoop(1, 0, experience)

\* Skill::add_experience on a skill whose sum does not overflow.
AddExperience(skill, exp) ==
    LET e == U32Add(skill.experience, exp).val
    IN  [level |-> UpdateLevel(e), experience |-> e]

\* Skills::gain_<s>_xp(amount) on skills whose sum does not overflow.
GainedSkills(sk, s, amount) == [sk EXCEPT ![s] = AddExperience(sk[s], amount)]

\* The sum of the first n entries of XpTable: the value of `points` after n
\* iterations of the loop of update_level.
RECURSIVE SumXp(_)
SumXp(n) == IF n = 0 THEN 0 ELSE SumXp(n - 1) + XpTable[n]

CumXpTable == [n \in 0 .. MaxLevel - 1 |-> SumXp(n)]

CumXp(n) == CumXpTable[n]

(***************************************************************************)
(* inventory.rs: items                                                     *)
(***************************************************************************)

\* ItemType, as [cat, sub, n]: the variant, its inner variant and its number
\* (Currency value, Food healing, the level of an Axe / FishingRod / Logs).
ItemType(cat, sub, n) == [cat |-> cat, sub |-> sub, n |-> n]

\* ResourceType::RawFish and ResourceType::RawBeef: the cooking level is in
\* n, the burn level beside it.
RawType(sub, cooking_level, burn_level) ==
    [cat |-> "Resource", sub |-> sub, n |-> cooking_level, burn_level |-> burn_level]

Item(name, item_type, stackable, quantity) ==
    [name |-> name, item_type |-> item_type, stackable |-> stackable,
     quantity |-> quantity]

gp(amount) == Item("GP", ItemType("Currency", "", 1), TRUE, amount)

bronze_axe == Item("Bronze Axe", ItemType("Tool", "Axe", 1), FALSE, 1)

logs == Item("Logs", ItemType("Resource", "Logs", 1), FALSE, 1)

bones == Item("Bones", ItemType("Resource", "Bones", 0), FALSE, 1)

cow_hide == Item("Cow hide", ItemType("Resource", "Hide", 0), FALSE, 1)

fishing_rod == Item("Fishing Rod", ItemType("Tool", "FishingRod", 1), FALSE, 1)

bait == Item("Fishing Bait", ItemType("Resource", "Bait", 0), FALSE, 1)

\* Item::raw_shrimp and Item::raw_trout
raw_shrimp == Item("Raw Shrimp", RawType("RawFish", 1, 1), FALSE, 1)

raw_trout == Item("Raw Trout", RawType("RawFish", 15, 15), FALSE, 1)

\* Item::cooked_fish, Item::burnt_fish, Item::raw_beef, Item::cooked_beef,
\* Item::burnt_beef
cooked_fish == Item("Cooked fish", ItemType("Resource", "CookedFish", 3), FALSE, 1)
burnt_fish == Item("Burnt fish", ItemType("Resource", "BurntFish", 0), FALSE, 1)
raw_beef == Item("Raw beef", RawType("RawBeef", 1, 30), FALSE, 1)
cooked_beef == Item("Cooked beef", ItemType("Food", "", 8), FALSE, 1)
burnt_beef == Item("Burnt beef", ItemType("Resource", "BurntBeef", 0), FALSE, 1)

\* Item::tinderbox
tinderbox == Item("Tinderbox", ItemType("Tool", "Tinderbox", 0), FALSE, 1)

\* Item::shrimp: food that heals 3
shrimp == Item("Shrimp", ItemType("Food", "", 3), FALSE, 1)

\* Weapon(WeaponStats): n is the attack_bonus (the bronze sword's
\* strength_bonus of 3 is not kept).
bronze_sword == Item("Bronze Sword", ItemType("Weapon", "", 4), FALSE, 1)

\* Armor(ArmorStats): sub is the ArmorSlot, n the defense_bonus.
bronze_helmet == Item("Bronze Helmet", ItemType("Armor", "Head", 3), FALSE, 1)

bronze_platebody == Item("Bronze Platebody", ItemType("Armor", "Body", 5), FALSE, 1)

bronze_platelegs == Item("Bronze Platelegs", ItemType("Armor", "Legs", 4), FALSE, 1)

\* Item::can_equip
CanEquip(item) == item.item_type.cat \in {"Weapon", "Armor"}

(***************************************************************************)
(* equipment.rs                                                            *)
(***************************************************************************)

ArmorSlots == {"Head", "Body", "Legs"}

\* The field of Equipment that an ArmorSlot names.
ArmorField(slot) ==
    CASE slot = "Head" -> "head"
      [] slot = "Body" -> "body"
      [] slot = "Legs" -> "legs"

\* Equipment::new
EquipmentNew == [weapon |-> None, head |-> None, body |-> None, legs |-> None]

\* Equipment::equip_weapon: the equipment afterwards and the item returned.
\* An equip_weapon that loses the weapon it replaces.
EquipWeaponDropsOld(eq, item) ==
    [equipment |-> [eq EXCEPT !.weapon = Some(item)], ret |-> None]

EquipWeapon(eq, item) ==
    [equipment |-> [eq EXCEPT !.weapon = Some(item)], ret |-> eq.weapon]

\* Equipment::equip_armor
EquipArmor(eq, item) ==
    IF item.item_type.cat = "Armor"
    THEN [equipment |-> [eq EXCEPT ![ArmorField(item.item_type.sub)] = Some(item)],
          ret |-> eq[ArmorField(item.item_type.sub)]]
    ELSE [equipment |-> eq, ret |-> None]

\* Equipment::unequip_weapon
UnequipWeapon(eq) ==
    [equipment |-> [eq EXCEPT !.weapon = None], ret |-> eq.weapon]

\* Equipment::unequip_armor
UnequipArmor(eq, slot) ==
    [equipment |-> [eq EXCEPT ![ArmorField(slot)] = None], ret |-> eq[ArmorField(slot)]]

\* The item type each constructor gives the name.
TypeOfName(name) ==
    CASE name = "GP" -> gp(1).item_type
      [] name = "Bronze Axe" -> bronze_axe.item_type
      [] name = "Logs" -> logs.item_type
      [] name = "Bones" -> bones.item_type

\* Item::is_stackable
IsStackable(item) == item.stackable \/ item.item_type.cat = "Currency"

\* Item::make_unstackable (called by Bank::remove_items)
MakeUnstackable(item) == [item EXCEPT !.stackable = FALSE]

(***************************************************************************)
(* inventory.rs / bank.rs: containers                                      *)
(***************************************************************************)

\* vec![None; capacity]
EmptySlots(capacity) == [i \in 0 .. capacity - 1 |-> None]

MinOf(S) == CHOOSE x \in S : \A y \in S : x <= y

\* The slots holding an item named as `item` (Inventory::add_item's scan).
SameName(items, item) ==
    {i \in DOMAIN items : IsSome(items[i]) /\ Unwrap(items[i]).name = item.name}

\* The slots Bank::add_item stacks onto: same name and same item type.
SameNameAndType(items, item) ==
    {i \in DOMAIN items :
        /\ IsSome(items[i])
        /\ Unwrap(items[i]).name = item.name
        /\ Unwrap(items[i]).item_type = item.item_type}

EmptyIndices(items) == {i \in DOMAIN items : items[i] = None}

\* existing_item.quantity += item.quantity on the first slot of `matching`.
StackOnto(items, matching, item) ==
    [items EXCEPT ![MinOf(matching)] =
        Some([Unwrap(@) EXCEPT !.quantity = @ + item.quantity])]

\* *empty_slot = Some(item) on the first empty slot.
PlaceInFirstEmpty(items, item) ==
    [items EXCEPT ![MinOf(EmptyIndices(items))] = Some(item)]

\* A variant without the stacking scan: it places a stackable item in an
\* empty slot even when a stack of its name exists.
InventoryAddItemNoMerge(items, item) ==
    IF EmptyIndices(items) # {}
    THEN [items |-> PlaceInFirstEmpty(items, item), ok |-> TRUE]
    ELSE [items |-> items, ok |-> FALSE]

\* A variant that overwrites the first slot when the inventory is full.
InventoryAddItemOverwrite(items, item) ==
    IF IsStackable(item) /\ SameName(items, item) # {}
    THEN [items |-> StackOnto(items, SameName(items, item), item), ok |-> TRUE]
    ELSE IF EmptyIndices(items) # {}
    THEN [items |-> PlaceInFirstEmpty(items, item), ok |-> TRUE]
    ELSE [items |-> [items EXCEPT ![MinOf(DOMAIN items)] = Some(item)], ok |-> FALSE]

\* Inventory::add_item
InventoryAddItem(items, item) ==
    IF IsStackable(item) /\ SameName(items, item) # {}
    THEN [items |-> StackOnto(items, SameName(items, item), item), ok |-> TRUE]
    ELSE IF EmptyIndices(items) # {}
    THEN [items |-> PlaceInFirstEmpty(items, item), ok |-> TRUE]
    ELSE [items |-> items, ok |-> FALSE]

\* A variant of Bank::add_item that stacks only items that are stackable, as
\* the inventory does.
BankAddItemByFlag(items, item) ==
    IF IsStackable(item) /\ SameName(items, item) # {}
    THEN [items |-> StackOnto(items, SameName(items, item), item), ok |-> TRUE]
    ELSE IF EmptyIndices(items) # {}
    THEN [items |-> PlaceInFirstEmpty(items, item), ok |-> TRUE]
    ELSE [items |-> items, ok |-> FALSE]

\* Bank::add_item
BankAddItem(items, item) ==
    IF SameNameAndType(items, item) # {}
    THEN [items |-> StackOnto(items, SameNameAndType(items, item), item), ok |-> TRUE]
    ELSE IF EmptyIndices(items) # {}
    THEN [items |-> PlaceInFirstEmpty(items, item), ok |-> TRUE]
    ELSE [items |-> items, ok |-> FALSE]

\* A variant of remove_item that leaves the slot occupied when it hands out
\* the last unit.
RemoveItemKeep(items, index) ==
    IF index \in DOMAIN items /\ IsSome(items[index])
    THEN [items |-> items, ret |-> items[index]]
    ELSE [items |-> items, ret |-> None]

\* remove_item reading the last slot when the index is past the end.
RemoveItemClamped(items, index) ==
    LET last_slot == Cardinality(DOMAIN items) - 1
        at == IF index > last_slot THEN last_slot ELSE index
    IN  IF IsSome(items[at])
        THEN [items |-> [items EXCEPT ![at] = None], ret |-> items[at]]
        ELSE [items |-> items, ret |-> None]

\* Inventory::remove_item and Bank::remove_item (the same code)
RemoveItem(items, index) ==
    IF index \in DOMAIN items /\ IsSome(items[index])
    THEN LET item == Unwrap(items[index])
         IN  IF IsStackable(item) /\ item.quantity > 1
             THEN [items |-> [items EXCEPT ![index] =
                                 Some([item EXCEPT !.quantity = @ - 1])],
                   ret |-> Some(Item(item.name, item.item_type, item.stackable, 1))]
             ELSE [items |-> [items EXCEPT ![index] = None], ret |-> items[index]]
    ELSE [items |-> items, ret |-> None]

\* Inventory::remove_items
InventoryRemoveItems(items, index, amount) ==
    IF index \in DOMAIN items /\ IsSome(items[index])
    THEN LET item == Unwrap(items[index])
         IN  IF ~IsStackable(item) \/ amount > item.quantity
             THEN [items |-> items, ret |-> None]
             ELSE IF amount = item.quantity
             THEN [items |-> [items EXCEPT ![index] = None], ret |-> items[index]]
             ELSE [items |-> [items EXCEPT ![index] =
                                 Some([item EXCEPT !.quantity = @ - amount])],
                   ret |-> Some(Item(item.name, item.item_type, item.stackable, amount))]
    ELSE [items |-> items, ret |-> None]

\* Bank::remove_items: whatever `amount` >= 1 is, one unit leaves the slot.
BankRemoveItems(items, index, amount) ==
    IF index \in DOMAIN items /\ IsSome(items[index])
    THEN LET item == Unwrap(items[index])
         IN  IF amount >= 1
             THEN IF item.quantity <= 1
                  THEN [items |-> [items EXCEPT ![index] = None],
                        ret |-> Some([MakeUnstackable(item) EXCEPT !.quantity = 1])]
                  ELSE [items |-> [items EXCEPT ![index] =
                                      Some([item EXCEPT !.quantity = @ - 1])],
                        ret |-> Some(MakeUnstackable(
                                   Item(item.name, item.item_type, FALSE, 1)))]
             ELSE [items |-> items, ret |-> None]
    ELSE [items |-> items, ret |-> None]

\* Inventory::get_item / Bank::get_item
GetItem(items, index) == IF index \in DOMAIN items THEN items[index] ELSE None

\* The largest i32: Combat.health and Combat.max_health are i32.
I32Max == 2147483647

\* `health + amount` leaves the i32 range (health >= 0, amount >= 0).
AddOverflows(health, amount) == amount > I32Max - health

\* health + amount in i32 arithmetic, wrapped around when it overflows.
WrappingAdd(health, amount) ==
    IF AddOverflows(health, amount)
    THEN (0 - I32Max - 1) + (amount - (I32Max - health) - 1)
    ELSE health + amount

\* Combat::heal (the sum wraps when the build does not check overflow)
Heal(combat, amount) ==
    [combat EXCEPT !.health = Min(WrappingAdd(@, amount), combat.max_health)]

\* Item::use_item: food heals and is consumed, anything else is not consumed.
ItemUseItem(item, combat) ==
    IF item.item_type.cat = "Food"
    THEN [combat |-> Heal(combat, item.item_type.n), ret |-> TRUE]
    ELSE [combat |-> combat, ret |-> FALSE]

\* Inventory::use_item: the slot is emptied when the item was consumed.
InventoryUseItem(items, index, combat) ==
    IF index \in DOMAIN items /\ IsSome(items[index])
    THEN LET r == ItemUseItem(Unwrap(items[index]), combat)
         IN  [items |-> IF r.ret THEN [items EXCEPT ![index] = None] ELSE items,
              combat |-> r.combat, ret |-> r.ret]
    ELSE [items |-> items, combat |-> combat, ret |-> FALSE]

\* The total quantity of the items named `name` in a container.
RECURSIVE SumQuantity(_, _, _)
SumQuantity(items, name, n) ==
    IF n = 0 THEN 0
    ELSE SumQuantity(items, name, n - 1)
         + (IF IsSome(items[n - 1]) /\ Unwrap(items[n - 1]).name = name
            THEN Unwrap(items[n - 1]).quantity ELSE 0)

TotalOf(items, name) == SumQuantity(items, name, Cardinality(DOMAIN items))

Occupied(items) == {i \in DOMAIN items : IsSome(items[i])}

(***************************************************************************)
(* Bounds of the runs                                                      *)
(***************************************************************************)

\* Slots of the containers the container API runs construct.
ApiCapacity == 2

\* Slots of the modelled inventory (the game constructs Inventory::new(28)).
InvCapacity == 4

\* Slots of the modelled bank (the game constructs Bank::new(800)).
BankCapacity == 2

\* Largest quantity a slot is driven to.
MaxQuantity == 2

\* Calls made in a run of the skill API.
MaxSteps == 2

\* Levels L whose cumulative thresholds the skill runs start next to.
ProbeLevels == 2

\* Distance from the u32 maximum of the saved experiences the skill runs load.
NearMax == 1

(***************************************************************************)
(* The container API: add_item, remove_item, remove_items called on an     *)
(* Inventory or on a Bank, with items of any name, flag and quantity.      *)
(***************************************************************************)

ItemNames == {"GP", "Logs"}

\* Items of either name with any flag and quantity, and a shrimp to eat.
ApiItems ==
    {Item(n, TypeOfName(n), st, q) :
        n \in ItemNames, st \in BOOLEAN, q \in 1 .. MaxQuantity} \cup {shrimp}

WithinQuantity(items) ==
    \A i \in DOMAIN items : IsSome(items[i]) => Unwrap(items[i]).quantity <= MaxQuantity

Record(op, item, index, amount, ok, ret) ==
    [op |-> op, item |-> item, index |-> index, amount |-> amount,
     pre_inventory |-> inventory, pre_bank |-> bank, ok |-> ok, ret |-> ret]

\* The world fields as GameState::new builds them, before anything is spawned.
WorldNew ==
    /\ player_x = 512
    /\ player_y = 0
    /\ camera_x = 0
    /\ target_x = None
    /\ target_y = None
    /\ pending_action = [kind |-> "None", index |-> 0]
    /\ ongoing_action = [kind |-> "None", x |-> 0, index |-> 0]
    /\ action_timer = 0
    /\ entities = <<>>
    /\ world_objects = <<>>
    /\ dropped_items = <<>>
    /\ player_combat = [health |-> 20, max_health |-> 20]
    /\ context_menu = [visible |-> FALSE, x |-> 0, items |-> <<>>]
    /\ fishing_spots = <<>>
    /\ fishing_spot_timer = 0
    /\ equipment = EquipmentNew

\* The runs of the container and skill interfaces leave the world alone.
WorldUnchanged ==
    UNCHANGED <<player_x, player_y, camera_x, target_x, target_y, pending_action, ongoing_action,
                action_timer, entities, world_objects, dropped_items,
                player_combat, context_menu, fishing_spots, fishing_spot_timer,
                equipment>>

UiUnchanged ==
    /\ UNCHANGED <<selected_bank_slot, selected_inventory_slot>>
    /\ WorldUnchanged

CallInventoryAddItem(item) ==
    LET r == InventoryAddItem(inventory, item)
    IN  /\ subject = "Inventory"
        /\ WithinQuantity(r.items)
        /\ inventory' = r.items
        /\ last' = Record("Inventory::add_item", Some(item), 0, 0, r.ok, None)
        /\ UNCHANGED <<skills, steps, panicked, subject, bank>>
        /\ UiUnchanged

CallBankAddItem(item) ==
    LET r == BankAddItem(bank, item)
    IN  /\ subject = "Bank"
        /\ WithinQuantity(r.items)
        /\ bank' = r.items
        /\ last' = Record("Bank::add_item", Some(item), 0, 0, r.ok, None)
        /\ UNCHANGED <<skills, steps, panicked, subject, inventory>>
        /\ UiUnchanged

CallInventoryRemoveItem(index) ==
    LET r == RemoveItem(inventory, index)
    IN  /\ subject = "Inventory"
        /\ inventory' = r.items
        /\ last' = Record("Inventory::remove_item", None, index, 0, IsSome(r.ret), r.ret)
        /\ UNCHANGED <<skills, steps, panicked, subject, bank>>
        /\ UiUnchanged

CallBankRemoveItem(index) ==
    LET r == RemoveItem(bank, index)
    IN  /\ subject = "Bank"
        /\ bank' = r.items
        /\ last' = Record("Bank::remove_item", None, index, 0, IsSome(r.ret), r.ret)
        /\ UNCHANGED <<skills, steps, panicked, subject, inventory>>
        /\ UiUnchanged

CallInventoryRemoveItems(index, amount) ==
    LET r == InventoryRemoveItems(inventory, index, amount)
    IN  /\ subject = "Inventory"
        /\ inventory' = r.items
        /\ last' = Record("Inventory::remove_items", None, index, amount, IsSome(r.ret), r.ret)
        /\ UNCHANGED <<skills, steps, panicked, subject, bank>>
        /\ UiUnchanged

CallBankRemoveItems(index, amount) ==
    LET r == BankRemoveItems(bank, index, amount)
    IN  /\ subject = "Bank"
        /\ bank' = r.items
        /\ last' = Record("Bank::remove_items", None, index, amount, IsSome(r.ret), r.ret)
        /\ UNCHANGED <<skills, steps, panicked, subject, inventory>>
        /\ UiUnchanged

\* remove_item(index) on an occupied slot, then add_item of what it returned.
CallInventoryRoundTrip(index) ==
    LET r == RemoveItem(inventory, index)
        a == InventoryAddItem(r.items, Unwrap(r.ret))
    IN  /\ subject = "Inventory"
        /\ index \in Occupied(inventory)
        /\ inventory' = a.items
        /\ last' = Record("Inventory::round_trip", r.ret, index, 0, a.ok, r.ret)
        /\ UNCHANGED <<skills, steps, panicked, subject, bank>>
        /\ UiUnchanged

CallBankRoundTrip(index) ==
    LET r == RemoveItem(bank, index)
        a == BankAddItem(r.items, Unwrap(r.ret))
    IN  /\ subject = "Bank"
        /\ index \in Occupied(bank)
        /\ bank' = a.items
        /\ last' = Record("Bank::round_trip", r.ret, index, 0, a.ok, r.ret)
        /\ UNCHANGED <<skills, steps, panicked, subject, inventory>>
        /\ UiUnchanged

CallInventoryGetItem(index) ==
    /\ subject = "Inventory"
    /\ last' = Record("Inventory::get_item", None, index, 0,
                      IsSome(GetItem(inventory, index)), GetItem(inventory, index))
    /\ UNCHANGED <<skills, steps, panicked, subject, inventory, bank>>
    /\ UiUnchanged

CallBankGetItem(index) ==
    /\ subject = "Bank"
    /\ last' = Record("Bank::get_item", None, index, 0,
                      IsSome(GetItem(bank, index)), GetItem(bank, index))
    /\ UNCHANGED <<skills, steps, panicked, subject, inventory, bank>>
    /\ UiUnchanged

CallInventoryUseItem(index) ==
    LET r == InventoryUseItem(inventory, index, player_combat)
    IN  /\ subject = "Inventory"
        /\ inventory' = r.items
        /\ player_combat' = r.combat
        /\ last' = Record("Inventory::use_item", None, index, 0, r.ret, None)
        /\ UNCHANGED <<skills, steps, panicked, subject, bank>>
        /\ UNCHANGED <<selected_bank_slot, selected_inventory_slot>>
        /\ UNCHANGED <<player_x, player_y, camera_x, target_x, target_y, pending_action, ongoing_action,
                       action_timer, entities, world_objects, dropped_items,
                       context_menu, fishing_spots, fishing_spot_timer, equipment>>

NoRecord ==
    [op |-> "none", item |-> None, index |-> 0, amount |-> 0,
     pre_inventory |-> inventory, pre_bank |-> bank, ok |-> TRUE, ret |-> None]

InitContainers ==
    /\ skills = SkillsNew
    /\ steps = 0
    /\ panicked = FALSE
    /\ subject \in {"Inventory", "Bank"}
    /\ inventory = EmptySlots(ApiCapacity)
    /\ bank = EmptySlots(ApiCapacity)
    /\ last = NoRecord
    /\ selected_bank_slot = None
    /\ selected_inventory_slot = None
    /\ WorldNew

NextContainers ==
    \/ \E item \in ApiItems : CallInventoryAddItem(item)
    \/ \E item \in ApiItems : CallBankAddItem(item)
    \/ \E index \in 0 .. ApiCapacity : CallInventoryRemoveItem(index)
    \/ \E index \in 0 .. ApiCapacity : CallBankRemoveItem(index)
    \/ \E index \in 0 .. ApiCapacity, amount \in 0 .. MaxQuantity + 1 :
          CallInventoryRemoveItems(index, amount)
    \/ \E index \in 0 .. ApiCapacity, amount \in 0 .. MaxQuantity + 1 :
          CallBankRemoveItems(index, amount)
    \/ \E index \in 0 .. ApiCapacity : CallInventoryGetItem(index)
    \/ \E index \in 0 .. ApiCapacity : CallBankGetItem(index)
    \/ \E index \in 0 .. ApiCapacity : CallInventoryUseItem(index)
    \/ \E index \in 0 .. ApiCapacity - 1 : CallInventoryRoundTrip(index)
    \/ \E index \in 0 .. ApiCapacity - 1 : CallBankRoundTrip(index)

SpecContainers == InitContainers /\ [][NextContainers]_vars

\* The container the last API call acted on, before and after the call.
PreItems == IF subject = "Inventory" THEN last.pre_inventory ELSE last.pre_bank
PostItems == IF subject = "Inventory" THEN inventory ELSE bank

(***************************************************************************)
(* Claims about the container API (checked under SpecContainers)           *)
(***************************************************************************)

IsAddItem == last.op \in {"Inventory::add_item", "Bank::add_item"}

\* The item handed to the last add_item.
Added == Unwrap(last.item)

\* C5: Inventory::add_item and Bank::add_item of a stackable item (flag set or
\* Currency), when a slot already holds an item of the same name, return true
\* and change nothing but one such slot, whose quantity grows by exactly the
\* added quantity.
C5_StackableAddMerges ==
    (IsAddItem /\ IsStackable(Added) /\ SameName(PreItems, Added) # {}) =>
        /\ last.ok
        /\ \E j \in SameName(PreItems, Added) :
              PostItems = [PreItems EXCEPT ![j] =
                  Some([Unwrap(@) EXCEPT !.quantity = @ + Added.quantity])]
        /\ Cardinality(Occupied(PostItems)) = Cardinality(Occupied(PreItems))

\* C5 witness: a stackable item was added onto a stack of one unit of its
\* name, the only occupied slot, which now holds one unit more than was added.
C5_Witness ==
    /\ IsAddItem
    /\ IsStackable(Added)
    /\ SameName(PreItems, Added) # {}
    /\ \E j \in DOMAIN PostItems :
          /\ IsSome(PostItems[j])
          /\ Unwrap(PostItems[j]).quantity = Added.quantity + 1
          /\ Cardinality(Occupied(PostItems)) = 1

AllSlotsNonStackable(items) ==
    \A i \in DOMAIN items : IsSome(items[i]) /\ ~IsStackable(Unwrap(items[i]))

\* C6: Inventory::add_item returns false only when nothing merged and no slot
\* was empty, and then the inventory is unchanged; in particular adding a
\* non-stackable item to an inventory full of non-stackable items fails and
\* changes no slot.
C6_AddFailsOnlyWhenFull ==
    last.op = "Inventory::add_item" =>
        /\ ~last.ok =>
              /\ EmptyIndices(last.pre_inventory) = {}
              /\ ~(IsStackable(Added) /\ SameName(last.pre_inventory, Added) # {})
              /\ inventory = last.pre_inventory
        /\ (AllSlotsNonStackable(last.pre_inventory) /\ ~IsStackable(Added)) =>
              (~last.ok /\ inventory = last.pre_inventory)

\* C6 witness: add_item of a non-stackable item on an inventory whose slots
\* all hold non-stackable items returned false.
C6_Witness ==
    /\ last.op = "Inventory::add_item"
    /\ AllSlotsNonStackable(last.pre_inventory)
    /\ ~IsStackable(Added)
    /\ ~last.ok

IsRemoveItems == last.op \in {"Inventory::remove_items", "Bank::remove_items"}

\* C7: Inventory::remove_items and Bank::remove_items with an amount greater
\* than the slot's quantity return None and leave the slot unchanged, and no
\* call leaves a slot with a negative quantity.
C7_RemoveItemsRejectsExcess ==
    IsRemoveItems =>
        /\ (/\ last.index \in Occupied(PreItems)
            /\ last.amount > Unwrap(PreItems[last.index]).quantity) =>
               (last.ret = None /\ PostItems = PreItems)
        /\ \A i \in Occupied(PostItems) : Unwrap(PostItems[i]).quantity >= 0

IsRoundTrip == last.op \in {"Inventory::round_trip", "Bank::round_trip"}

\* C8 as stated: remove_item(i) then add_item of the returned item leaves
\* every slot as it was, whatever the other slots hold.
C8_RoundTripRestoresSlots == IsRoundTrip => PostItems = PreItems

NoLowerEmpty(items, index) == \A j \in 0 .. index - 1 : IsSome(items[j])

NoOtherSameName(items, index) ==
    SameName(items, Unwrap(items[index])) = {index}

\* C8 amended: the round trip restores every slot when no lower-indexed slot
\* is empty and no other slot holds an item of the same name; in every case it
\* preserves the total quantity of each item name.
C8_RoundTripAmended ==
    IsRoundTrip =>
        /\ \A n \in ItemNames : TotalOf(PostItems, n) = TotalOf(PreItems, n)
        /\ (NoLowerEmpty(PreItems, last.index) /\ NoOtherSameName(PreItems, last.index)) =>
              PostItems = PreItems

\* C8 witness: a round trip on the last slot, holding a non-stackable item,
\* with every lower slot occupied and no other slot of its name: the slot is
\* emptied and refilled.
C8_Witness ==
    /\ IsRoundTrip
    /\ last.index = ApiCapacity - 1
    /\ NoLowerEmpty(PreItems, last.index)
    /\ NoOtherSameName(PreItems, last.index)
    /\ ~IsStackable(Unwrap(PreItems[last.index]))
    /\ PostItems = PreItems

(***************************************************************************)
(* The skill API: Skills::gain_*_xp called on skills restored from a save  *)
(* (GameState::new takes save_data.skills) or created by Skills::new.      *)
(***************************************************************************)

U32Max == [hi |-> HalfWord - 1, lo |-> HalfWord - 1]

\* Experiences a run starts from: 0, one below the thresholds of the first
\* levels and of level 99, and the values next to the u32 maximum.
SavedExperience ==
    {U32(0)}
    \cup {U32(CumXp(L) - 1) : L \in 1 .. ProbeLevels}
    \cup {U32(CumXp(MaxLevel - 1) - 1)}
    \cup {[hi |-> HalfWord - 1, lo |-> HalfWord - 1 - k] : k \in 0 .. NearMax}

XpAmounts == {0, 1, 25}

\* Skills::gain_<s>_xp(amount).  `self.experience += exp` is an unchecked u32
\* addition: on overflow a build with overflow checks panics, a build without
\* them wraps.
CallGainXp(s, amount) ==
    /\ ~panicked
    /\ steps < MaxSteps
    /\ steps' = steps + 1
    /\ last' = [op |-> "add_experience", skill |-> s, amount |-> amount,
                pre |-> skills[s]]
    /\ IF U32Add(skills[s].experience, amount).overflow
       THEN \/ panicked' = TRUE /\ skills' = skills
            \/ panicked' = FALSE /\ skills' = GainedSkills(skills, s, amount)
       ELSE panicked' = FALSE /\ skills' = GainedSkills(skills, s, amount)
    /\ UNCHANGED <<subject, inventory, bank>>
    /\ UiUnchanged

InitSkills ==
    /\ \E e \in SavedExperience :
          skills = [s \in SkillNames |-> [level |-> UpdateLevel(e), experience |-> e]]
    /\ steps = 0
    /\ panicked = FALSE
    /\ subject = "Inventory"
    /\ inventory = EmptySlots(InvCapacity)
    /\ bank = EmptySlots(BankCapacity)
    /\ last = [op |-> "none", skill |-> "attack", amount |-> 0, pre |-> SkillNew]
    /\ selected_bank_slot = None
    /\ selected_inventory_slot = None
    /\ WorldNew

NextSkills == \E s \in SkillNames, amount \in XpAmounts : CallGainXp(s, amount)

SpecSkills == InitSkills /\ [][NextSkills]_vars

\* The level the experience table gives: 1 plus the number of levels L in
\* 1..98 whose cumulative threshold is at most `experience`.
TableLevel(experience) ==
    1 + Cardinality({L \in 1 .. MaxLevel - 1 : U32Le(U32(CumXp(L)), experience)})

\* C9: the level of every skill is a function of its experience only: 1 plus
\* the number of levels whose cumulative threshold the experience has reached;
\* add_experience(0) leaves the level as it was.
C9_LevelIsFunctionOfExperience ==
    /\ \A s \in SkillNames : skills[s].level = TableLevel(skills[s].experience)
    /\ (last.op = "add_experience" /\ last.amount = 0) =>
           skills[last.skill].level = last.pre.level

\* C9 witness: one XP below the threshold of a level the skill had the level
\* below; add_experience(1) brought it exactly to the threshold and the level up.
C9_Witness ==
    /\ last.op = "add_experience"
    /\ last.amount = 1
    /\ \E L \in 1 .. MaxLevel - 1 :
          /\ skills[last.skill].experience = U32(CumXp(L))
          /\ skills[last.skill].level = L + 1
          /\ last.pre.level = L

\* C10: after add_experience the level is within 1..99 and neither the
\* experience nor the level of the skill is lower than before the call.
C10_LevelBoundedAndMonotonic ==
    /\ \A s \in SkillNames : skills[s].level >= 1 /\ skills[s].level <= MaxLevel
    /\ last.op = "add_experience" =>
          /\ U32Le(last.pre.experience, skills[last.skill].experience)
          /\ last.pre.level <= skills[last.skill].level

(***************************************************************************)
(* ui.rs: the bank window.  Items reach the inventory through              *)
(* Inventory::add_item of a constructor's item (the starting kit, a pickup,*)
(* a chopped log); the handlers below move them between inventory and bank.*)
(***************************************************************************)

\* The loop of GameUI::withdraw_items: `left` iterations to go, `added`
\* units moved so far.  Gives the containers when the function returns.
RECURSIVE WithdrawLoop(_, _, _, _, _)
WithdrawLoop(inv, bnk, slot, left, added) ==
    IF left = 0
    THEN [inventory |-> inv, bank |-> bnk, added |-> added]
    ELSE LET r == BankRemoveItems(bnk, slot, 1)
         IN  IF IsSome(r.ret)
             THEN LET a == InventoryAddItem(inv, Unwrap(r.ret))
                  IN  IF a.ok
                      THEN WithdrawLoop(a.items, r.items, slot, left - 1, added + 1)
                      ELSE IF added > 0
                      THEN [inventory |-> inv,
                            bank |-> BankAddItem(r.items, Unwrap(r.ret)).items,
                            added |-> added]
                      ELSE [inventory |-> inv, bank |-> r.items, added |-> added]
             ELSE [inventory |-> inv, bank |-> bnk, added |-> added]

\* GameUI::withdraw_items(amount) for Some(slot) = selected_bank_slot.
WithdrawItemsResult(inv, bnk, slot, amount) ==
    IF IsSome(GetItem(bnk, slot))
    THEN WithdrawLoop(inv, bnk, slot,
                      Min(amount, Unwrap(GetItem(bnk, slot)).quantity), 0)
    ELSE [inventory |-> inv, bank |-> bnk, added |-> 0]

\* GameUI::deposit_items(amount) for Some(slot) = selected_inventory_slot.
DepositItemsResult(inv, bnk, slot, amount) ==
    IF IsSome(GetItem(inv, slot))
    THEN LET r == InventoryRemoveItems(inv, slot,
                      Min(amount, Unwrap(GetItem(inv, slot)).quantity))
         IN  IF IsSome(r.ret)
             THEN LET b == BankAddItem(bnk, Unwrap(r.ret))
                  IN  IF b.ok
                      THEN [inventory |-> r.items, bank |-> b.items]
                      ELSE [inventory |-> InventoryAddItem(r.items, Unwrap(r.ret)).items,
                            bank |-> bnk]
             ELSE [inventory |-> inv, bank |-> bnk]
    ELSE [inventory |-> inv, bank |-> bnk]

\* The slots GameUI::deposit_all_items collects: same name and type as the
\* selected item.
SlotsToDeposit(inv, slot) ==
    SameNameAndType(inv, Unwrap(inv[slot]))

MaxOf(S) == CHOOSE x \in S : \A y \in S : x >= y

\* The loop of GameUI::deposit_all_items over the collected slots, highest
\* index first.
RECURSIVE DepositAllLoop(_, _, _)
DepositAllLoop(inv, bnk, slots) ==
    IF slots = {}
    THEN [inventory |-> inv, bank |-> bnk]
    ELSE LET i == MaxOf(slots)
         IN  IF IsSome(GetItem(inv, i))
             THEN LET r == InventoryRemoveItems(inv, i, Unwrap(inv[i]).quantity)
                  IN  IF IsSome(r.ret)
                      THEN LET b == BankAddItem(bnk, Unwrap(r.ret))
                           IN  IF b.ok
                               THEN DepositAllLoop(r.items, b.items, slots \ {i})
                               ELSE [inventory |->
                                        InventoryAddItem(r.items, Unwrap(r.ret)).items,
                                     bank |-> bnk]
                      ELSE DepositAllLoop(inv, bnk, slots \ {i})
             ELSE DepositAllLoop(inv, bnk, slots \ {i})

\* GameUI::deposit_all_items for Some(slot) = selected_inventory_slot.
DepositAllItemsResult(inv, bnk, slot) ==
    IF IsSome(GetItem(inv, slot))
    THEN DepositAllLoop(inv, bnk, SlotsToDeposit(inv, slot))
    ELSE [inventory |-> inv, bank |-> bnk]

GameUnchanged ==
    /\ UNCHANGED <<skills, steps, panicked, subject>>
    /\ WorldUnchanged

\* inventory.add_item(item) by the game (main.rs: starting kit, pickup, chop).
AcquireItem(item) ==
    LET a == InventoryAddItem(inventory, item)
    IN  /\ TotalOf(inventory, item.name) + TotalOf(bank, item.name) + item.quantity
              <= MaxQuantity
        /\ inventory' = a.items
        /\ last' = Record("acquire", Some(item), 0, 0, a.ok, None)
        /\ UNCHANGED <<bank, selected_bank_slot, selected_inventory_slot>>
        /\ GameUnchanged

\* GameUI::handle_bank_click, right button on a bank slot: the slot is
\* selected (and the withdraw menu shown) when it holds an item.
RightClickBankSlot(slot) ==
    /\ IsSome(GetItem(bank, slot))
    /\ selected_bank_slot' = Some(slot)
    /\ last' = Record("select_bank_slot", None, slot, 0, TRUE, None)
    /\ UNCHANGED <<inventory, bank, selected_inventory_slot>>
    /\ GameUnchanged

\* GameUI::handle_inventory_click with the bank open: the slot is selected
\* when it holds an item.
ClickInventorySlot(slot) ==
    /\ IsSome(GetItem(inventory, slot))
    /\ selected_inventory_slot' = Some(slot)
    /\ last' = Record("select_inventory_slot", None, slot, 0, TRUE, None)
    /\ UNCHANGED <<inventory, bank, selected_bank_slot>>
    /\ GameUnchanged

\* GameUI::handle_bank_click, left button on a bank slot: withdraw one unit.
LeftClickBankSlot(slot) ==
    LET r == BankRemoveItems(bank, slot, 1)
    IN  /\ IsSome(r.ret)
        /\ LET a == InventoryAddItem(inventory, Unwrap(r.ret))
           IN  IF a.ok
               THEN inventory' = a.items /\ bank' = r.items
               ELSE inventory' = inventory
                    /\ bank' = BankAddItem(r.items, Unwrap(r.ret)).items
        /\ last' = Record("left_click_withdraw", r.ret, slot, 1, TRUE, None)
        /\ UNCHANGED <<selected_bank_slot, selected_inventory_slot>>
        /\ GameUnchanged

\* GameUI::withdraw_items(amount)
WithdrawItems(amount) ==
    /\ IsSome(selected_bank_slot)
    /\ LET r == WithdrawItemsResult(inventory, bank, Unwrap(selected_bank_slot), amount)
       IN  /\ inventory' = r.inventory
           /\ bank' = r.bank
           /\ last' = Record("withdraw_items", None, Unwrap(selected_bank_slot),
                             amount, r.added > 0, None)
    /\ UNCHANGED <<selected_bank_slot, selected_inventory_slot>>
    /\ GameUnchanged

\* GameUI::deposit_items(amount)
DepositItems(amount) ==
    /\ IsSome(selected_inventory_slot)
    /\ LET r == DepositItemsResult(inventory, bank,
                                   Unwrap(selected_inventory_slot), amount)
       IN  /\ inventory' = r.inventory
           /\ bank' = r.bank
           /\ last' = Record("deposit_items", None, Unwrap(selected_inventory_slot),
                             amount, r.bank # bank, None)
    /\ UNCHANGED <<selected_bank_slot, selected_inventory_slot>>
    /\ GameUnchanged

\* GameUI::deposit_all_items
DepositAllItems ==
    /\ IsSome(selected_inventory_slot)
    /\ LET r == DepositAllItemsResult(inventory, bank, Unwrap(selected_inventory_slot))
       IN  /\ inventory' = r.inventory
           /\ bank' = r.bank
           /\ last' = Record("deposit_all_items", None, Unwrap(selected_inventory_slot),
                             0, r.bank # bank, None)
    /\ UNCHANGED <<selected_bank_slot, selected_inventory_slot>>
    /\ GameUnchanged

\* The items the game hands to the inventory in the banking runs.
AcquiredItems == {gp(q) : q \in 1 .. MaxQuantity} \cup {logs, bronze_axe}

\* Withdraw-1/10/100/All/X and Deposit-1/10/100/X: every amount from 1 to
\* more than any stack holds.
TransferAmounts == 1 .. MaxQuantity + 1

InitBanking ==
    /\ skills = SkillsNew
    /\ steps = 0
    /\ panicked = FALSE
    /\ subject = "Inventory"
    /\ inventory = EmptySlots(InvCapacity)
    /\ bank = EmptySlots(BankCapacity)
    /\ last = NoRecord
    /\ selected_bank_slot = None
    /\ selected_inventory_slot = None
    /\ WorldNew

NextBanking ==
    \/ \E item \in AcquiredItems : AcquireItem(item)
    \/ \E slot \in 0 .. BankCapacity - 1 : RightClickBankSlot(slot)
    \/ \E slot \in 0 .. InvCapacity - 1 : ClickInventorySlot(slot)
    \/ \E slot \in 0 .. BankCapacity - 1 : LeftClickBankSlot(slot)
    \/ \E amount \in TransferAmounts : WithdrawItems(amount)
    \/ \E amount \in TransferAmounts : DepositItems(amount)
    \/ DepositAllItems

SpecBanking == InitBanking /\ [][NextBanking]_vars

IsTransfer ==
    last.op \in {"left_click_withdraw", "withdraw_items", "deposit_items",
                 "deposit_all_items"}

AllItemNames == {"GP", "Logs", "Bronze Axe", "Bones"}

\* C4: every bank transfer (left-click withdraw, withdraw_items, deposit_items,
\* deposit_all_items) conserves items: for each item name the quantity held in
\* inventory plus bank is the same before and after the operation.
C4_TransfersConserveItems ==
    IsTransfer =>
        \A n \in AllItemNames :
            TotalOf(inventory, n) + TotalOf(bank, n)
                = TotalOf(last.pre_inventory, n) + TotalOf(last.pre_bank, n)

(***************************************************************************)
(* main.rs: the game loop.  Times are in hundredths of a second and lengths *)
(* in pixels.  The runs take place on one horizontal line of the world: the *)
(* player, the trees, the creatures and the clicks all have the same y, so  *)
(* sqrt(dx*dx + dy*dy) is |dx| and a step towards the target is the whole   *)
(* speed along x.  world_objects and entities list the objects on that line *)
(* only (the real lists also hold the objects elsewhere on the map).        *)
(***************************************************************************)

Abs(n) == IF n < 0 THEN 0 - n ELSE n

\* The interaction range: `distance > 40.0` in update_movement and
\* update_ongoing_action, `distance < 40.0` in Entity::is_near.
InteractionRange == 40

\* PendingAction
PendingNone == [kind |-> "None", index |-> 0]
PendingChopTree(tree_index) == [kind |-> "ChopTree", index |-> tree_index]
PendingPickupItem(index) == [kind |-> "PickupItem", index |-> index]
PendingAttack == [kind |-> "Attack", index |-> 0]
\* PendingAction::Fish(x, y): `index` holds x.
PendingFish(x) == [kind |-> "Fish", index |-> x]

\* OngoingAction
OngoingNone == [kind |-> "None", x |-> 0, index |-> 0]
ChoppingTree(x, tree_index) == [kind |-> "ChoppingTree", x |-> x, index |-> tree_index]
Fighting(target_index) == [kind |-> "Fighting", x |-> 0, index |-> target_index]
Fishing(x, spot_index) == [kind |-> "Fishing", x |-> x, index |-> spot_index]

\* Combat::new
CombatNew(max_health) == [health |-> max_health, max_health |-> max_health]

\* Combat::is_dead
IsDead(combat) == combat.health <= 0

\* Combat::take_damage
TakeDamage(combat, damage) == [combat EXCEPT !.health = Max(@ - damage, 0)]

\* Combat::attack, hit_chance in hundredths: accuracy is 0.5 + 0.01 * (attack
\* level + bonus), defense is 0.01 * (defense level + bonus), and the chance
\* is (accuracy - defense).max(0.1).
HitPercent(attacker, defender, attack_bonus, defense_bonus) ==
    LET accuracy == 50 + (attacker.attack.level + attack_bonus)
        defense == defender.defense.level + defense_bonus
    IN  Max(accuracy - defense, 10)

\* Combat::attack, max_hit = 1 + (effective_strength / 10)
MaxHit(attacker, strength_bonus) ==
    1 + ((attacker.strength.level + strength_bonus) \div 10)

\* `damage as u8` on a non-negative i32: the low eight bits.
AsU8(n) == n % 256

\* Combat::attack: the results the random draws can give.  The hit chance is
\* never 0, so a hit is always possible; a miss is possible while the chance
\* is below 1.  The damage is drawn from 1..=max_hit and returned `as u8`.
AttackRolls(attacker, defender, attack_bonus, strength_bonus, defense_bonus) ==
    {Some(AsU8(d)) : d \in 1 .. MaxHit(attacker, strength_bonus)}
        \cup (IF HitPercent(attacker, defender, attack_bonus, defense_bonus) < 100
              THEN {None} ELSE {})

\* WorldObject::new(x, y, ObjectType::Tree)
NewTree(x) ==
    [x |-> x, width |-> 32, object_type |-> "Tree", blocks_movement |-> TRUE,
     health |-> 3, fallen |-> FALSE]

\* WorldObject::is_chopped
IsChopped(obj) == obj.object_type = "Tree" /\ obj.health = 0

\* WorldObject::try_chop: the returned bool (the object is left as it is).
TryChop(obj, sk, axe) ==
    IF IsChopped(obj) \/ obj.object_type # "Tree" \/ obj.fallen
    THEN FALSE
    ELSE /\ IsSome(axe)
         /\ Unwrap(axe).item_type.cat = "Tool"
         /\ Unwrap(axe).item_type.sub = "Axe"
         /\ sk.woodcutting.level >= Unwrap(axe).item_type.n

\* WorldObject::collides_with for the player's 32 x 32 box at x, on the line.
CollidesWith(obj, x) ==
    /\ obj.blocks_movement
    /\ 2 * Abs(obj.x - x) < obj.width + 32

\* GameState::check_collision
CheckCollision(objects, x) ==
    \E i \in DOMAIN objects : CollidesWith(objects[i], x)

\* Entity::new_goblin
NewGoblin(x) ==
    [kind |-> "Goblin", x |-> x, spawn_x |-> x, combat |-> CombatNew(10),
     respawn_timer |-> None]

\* Entity::is_near
IsNear(entity, x) == Abs(entity.x - x) < InteractionRange

\* Entity::is_alive
IsAlive(entity) == ~IsDead(entity.combat) /\ entity.respawn_timer = None

\* How far from its spawn point a creature wanders in the runs (the code
\* draws wander targets up to 100 pixels away).
WanderRange == 0

\* How far the creatures of the melee wander: one step of a frame of 0.2 s.
MeleeWander == 10

\* The wander range of the run at hand.
WanderOf == IF subject = "Melee" THEN MeleeWander ELSE WanderRange

\* Entity::update(dt): the positions the creature can have afterwards.  The
\* wander target and the time of the next draw are random; a creature that
\* wanders moves 50 pixels per second towards the target, so after the call
\* it is where it was or 0.5 * dt further to either side.
EntityUpdates(entity, dt) ==
    IF IsSome(entity.respawn_timer)
    THEN LET timer == Unwrap(entity.respawn_timer) - dt
         IN  IF timer <= 0
             THEN {[entity EXCEPT !.respawn_timer = None,
                                  !.combat = CombatNew(10),
                                  !.x = entity.spawn_x]}
             ELSE {[entity EXCEPT !.respawn_timer = Some(timer)]}
    ELSE {[entity EXCEPT !.x = nx] :
             nx \in {entity.x} \cup
                    {c \in {entity.x - dt \div 2, entity.x + dt \div 2} :
                        Abs(c - entity.spawn_x) <= WanderOf}}

\* entity.update(dt) on every entity of the list.
AllEntityUpdates(ents, dt) ==
    {s \in [DOMAIN ents -> UNION {EntityUpdates(ents[i], dt) : i \in DOMAIN ents}] :
        \A i \in DOMAIN ents : s[i] \in EntityUpdates(ents[i], dt)}

\* self.entities.retain_mut(|entity| { entity.update(dt); entity.is_alive() })
RetainAlive(ents) == SelectSeq(ents, IsAlive)

\* EntityType::get_drop_table + DropTable::roll_drops for a goblin: Bones
\* (chance 100) always, the other entries by chance; the draws of the runs
\* give none of those.
GoblinDropRolls == {<<bones>>}

\* DroppedItem::new
NewDroppedItem(item, x) == [item |-> item, x |-> x, pickup_delay |-> 100]

\* DroppedItem::update
DroppedItemUpdate(dropped, dt) ==
    IF dropped.pickup_delay > 0
    THEN [dropped EXCEPT !.pickup_delay = @ - dt]
    ELSE dropped

\* The sequence without its element of (0-based) index `index`.
RemoveAt(seq, index) ==
    [i \in 1 .. Len(seq) - 1 |-> IF i <= index THEN seq[i] ELSE seq[i + 1]]

\* iter().enumerate().find(..): the 0-based index of the first element of a
\* list among those at the (1-based) positions S, the ones that satisfy the
\* test.
FirstIndex(S) == IF S = {} THEN None ELSE Some(MinOf(S) - 1)

\* FishingSpot::new
NewFishingSpot(x, fish_type) == [x |-> x, lifetime |-> 3000, fish_type |-> fish_type]

\* FishingSpot::is_near
SpotIsNear(spot, x) == Abs(spot.x - x) < InteractionRange

\* A spot that does not age.
SpotUpdateForever(spot, dt) == spot

\* FishingSpot::update: the spot after the call (retained while lifetime > 0).
SpotUpdate(spot, dt) == [spot EXCEPT !.lifetime = @ - dt]

\* try_fish without the bait test of the Trout arm.
TryFishWithoutBaitTest(spot, sk, rod, has_bait) ==
    IF spot.fish_type = "Shrimp"
    THEN IF sk.fishing.level >= 1 /\ IsSome(rod)
         THEN {Some(raw_shrimp), None}
         ELSE {None}
    ELSE IF sk.fishing.level >= 15 /\ IsSome(rod)
         THEN {Some(raw_trout), None}
         ELSE {None}

\* FishingSpot::try_fish: the results the draw can give.
TryFish(spot, sk, rod, has_bait) ==
    IF spot.fish_type = "Shrimp"
    THEN IF sk.fishing.level >= 1 /\ IsSome(rod)
         THEN {Some(raw_shrimp), None}
         ELSE {None}
    ELSE IF sk.fishing.level >= 15 /\ IsSome(rod) /\ has_bait
         THEN {Some(raw_trout), None}
         ELSE {None}

\* The first fishing rod of the inventory (update_ongoing_action, `rod`).
FindRod(items) ==
    LET S == {i \in DOMAIN items :
                 /\ IsSome(items[i])
                 /\ Unwrap(items[i]).item_type.cat = "Tool"
                 /\ Unwrap(items[i]).item_type.sub = "FishingRod"}
    IN  IF S = {} THEN None ELSE items[MinOf(S)]

\* The slots of the inventory that hold Bait.
BaitSlots(items) ==
    {i \in DOMAIN items :
        /\ IsSome(items[i])
        /\ Unwrap(items[i]).item_type.cat = "Resource"
        /\ Unwrap(items[i]).item_type.sub = "Bait"}

\* The fields of GameState the game loop reads and writes, as one record.
\* (fishing_spots is read only: EventHandler::update alone changes it.)
Game ==
    [player_x |-> player_x, target_x |-> target_x, fishing_spots |-> fishing_spots,
     pending_action |-> pending_action, ongoing_action |-> ongoing_action,
     action_timer |-> action_timer, entities |-> entities,
     world_objects |-> world_objects, dropped_items |-> dropped_items,
     inventory |-> inventory, skills |-> skills, player_combat |-> player_combat]

\* GameState::set_destination
SetDestination(g, x, action) ==
    [g EXCEPT !.target_x = Some(x), !.pending_action = action]

\* GameState::cancel_ongoing_action
CancelOngoingAction(g) ==
    [g EXCEPT !.ongoing_action = OngoingNone, !.action_timer = 0]

\* movement_speed * dt * 60.0 with movement_speed = 4.0 and dt in hundredths
\* of a second.
MoveStep(dt) == (4 * dt * 60) \div 100

\* update_movement, the arrival branch (distance <= 40): the pending action is
\* resolved and cleared.  `started` tells whether an ongoing action was set.
Arrive(g) ==
    LET g0 == [g EXCEPT !.target_x = None, !.pending_action = PendingNone]
        p == g.pending_action
    IN  CASE p.kind = "PickupItem" ->
               IF p.index < Len(g.dropped_items)
               THEN LET a == InventoryAddItem(g.inventory,
                                              g.dropped_items[p.index + 1].item)
                    IN  IF a.ok
                        THEN [g |-> [g0 EXCEPT !.inventory = a.items,
                                        !.dropped_items = RemoveAt(@, p.index)],
                              started |-> FALSE]
                        ELSE [g |-> g0, started |-> FALSE]
               ELSE [g |-> g0, started |-> FALSE]
          [] p.kind = "ChopTree" ->
               IF p.index < Len(g.world_objects)
                  /\ ~g.world_objects[p.index + 1].fallen
               THEN [g |-> [g0 EXCEPT
                              !.ongoing_action =
                                  ChoppingTree(g.world_objects[p.index + 1].x, p.index),
                              !.action_timer = 0],
                     started |-> TRUE]
               ELSE [g |-> g0, started |-> FALSE]
          [] p.kind = "Attack" ->
               LET found == FirstIndex({i \in DOMAIN g.entities :
                                               /\ IsNear(g.entities[i], g.player_x)
                                               /\ IsAlive(g.entities[i])})
               IN  IF IsSome(found)
                   THEN [g |-> [g0 EXCEPT !.ongoing_action = Fighting(Unwrap(found)),
                                          !.action_timer = 0],
                         started |-> TRUE]
                   ELSE [g |-> g0, started |-> FALSE]
          [] p.kind = "Fish" ->
               LET found == FirstIndex({i \in DOMAIN g.fishing_spots :
                                           SpotIsNear(g.fishing_spots[i], p.index)})
               IN  IF IsSome(found)
                   THEN [g |-> [g0 EXCEPT
                                  !.ongoing_action = Fishing(p.index, Unwrap(found)),
                                  !.action_timer = 0],
                         started |-> TRUE]
                   ELSE [g |-> g0, started |-> FALSE]
          [] OTHER -> [g |-> g0, started |-> FALSE]

\* GameState::update_movement
UpdateMovement(g, dt) ==
    IF IsSome(g.target_x)
    THEN LET dx == Unwrap(g.target_x) - g.player_x
             distance == Abs(dx)
         IN  IF distance > InteractionRange
             THEN LET move_x == IF dx > 0 THEN MoveStep(dt) ELSE 0 - MoveStep(dt)
                      new_x == Min(Max(g.player_x + move_x, 0 - 512), 2048)
                  IN  [g |-> IF CheckCollision(g.world_objects, new_x)
                             THEN g
                             ELSE [g EXCEPT !.player_x = new_x],
                       started |-> FALSE]
             ELSE Arrive(g)
    ELSE [g |-> g, started |-> FALSE]

\* GameState::attack_nearest_entity: the outcomes the combat and drop draws
\* can give.  Nothing is equipped in the runs (Equipment::new()), so the three
\* equipment bonuses are 0.  `victim` is the index attacked.
AttackNearestEntity(g) ==
    LET found == FirstIndex({i \in DOMAIN g.entities :
                                /\ IsNear(g.entities[i], g.player_x)
                                /\ IsAlive(g.entities[i])})
    IN  IF found = None
        THEN {[g |-> g, victim |-> None, killed |-> FALSE]}
        ELSE LET i == Unwrap(found) + 1
                 target == g.entities[i]
                 Miss == [g |-> g, victim |-> found, killed |-> FALSE]
                 Hit(damage) ==
                     LET combat == TakeDamage(target.combat, damage)
                         ents == [g.entities EXCEPT ![i].combat = combat]
                         sk == GainedSkills(g.skills, "attack", 4)
                     IN  IF IsDead(combat)
                         THEN {[g |-> [g EXCEPT
                                   !.entities = ents,
                                   !.dropped_items =
                                       @ \o [k \in DOMAIN drops |->
                                                NewDroppedItem(drops[k], target.x)],
                                   !.skills =
                                       GainedSkills(GainedSkills(GainedSkills(
                                           sk, "attack", 10), "strength", 10),
                                           "defense", 10)],
                                 victim |-> found, killed |-> TRUE] :
                               drops \in GoblinDropRolls}
                         ELSE {IF IsSome(back)
                               THEN [g |-> [g EXCEPT
                                        !.entities = ents,
                                        !.player_combat = TakeDamage(@, Unwrap(back)),
                                        !.skills = GainedSkills(sk, "defense", 4)],
                                     victim |-> found, killed |-> FALSE]
                               ELSE [g |-> [g EXCEPT !.entities = ents, !.skills = sk],
                                     victim |-> found, killed |-> FALSE] :
                               back \in AttackRolls(SkillsNew, g.skills, 0, 0, 0)}
             IN  UNION {IF IsSome(roll) THEN Hit(Unwrap(roll)) ELSE {Miss} :
                           roll \in AttackRolls(g.skills, SkillsNew, 0, 0, 0)}

\* The first axe of the inventory (update_ongoing_action, `axe_info`).
FindAxe(items) ==
    LET S == {i \in DOMAIN items :
                 /\ IsSome(items[i])
                 /\ Unwrap(items[i]).item_type.cat = "Tool"
                 /\ Unwrap(items[i]).item_type.sub = "Axe"}
    IN  IF S = {} THEN None ELSE items[MinOf(S)]

\* The chop time without its floor.
ChopTimeNoFloor(level, woodcutting_level) ==
    300 - 3 * level - 5 * woodcutting_level

\* (base_time - level_bonus - axe_bonus).max(1.2) with base_time = 3.0,
\* level_bonus = 0.03 * level and axe_bonus = 0.05 * woodcutting_level
ChopTime(level, woodcutting_level) ==
    Max(300 - 3 * level - 5 * woodcutting_level, 120)

\* The full-inventory branch with the action tried again after 3 seconds.
InventoryIsFullRetries(g) == [g EXCEPT !.action_timer = 300]

\* The else branch of `if self.inventory.add_item(..)` in the gathering arms
\* (the message is carried by the arm): cancel_ongoing_action.
InventoryIsFull(g) == CancelOngoingAction(g)

\* The ChoppingTree arm of update_ongoing_action, once the timer has expired.
\* `message` is the last message the arm hands to game_ui.add_message ("" when
\* it hands none; the level in the axe message is left out).
ResolveChop(g) ==
    LET tree_index == g.ongoing_action.index
    IN  IF tree_index < Len(g.world_objects)
        THEN LET tree == g.world_objects[tree_index + 1]
                 axe == FindAxe(g.inventory)
             IN  IF Abs(tree.x - g.player_x) > InteractionRange
                 THEN [g |-> SetDestination(g, tree.x, PendingChopTree(tree_index)),
                       ran |-> "chop_far", message |-> ""]
                 ELSE IF axe = None
                 THEN [g |-> CancelOngoingAction(g), ran |-> "chop_no_axe",
                       message |-> "You need an axe to chop trees."]
                 ELSE IF TryChop(tree, g.skills, axe)
                 THEN LET a == InventoryAddItem(g.inventory, logs)
                          sk == GainedSkills(g.skills, "woodcutting", 25)
                      IN  IF ~a.ok
                          THEN [g |-> InventoryIsFull(g), ran |-> "chop_full",
                                message |-> "Your inventory is full."]
                          ELSE IF tree.fallen
                          THEN [g |-> CancelOngoingAction(
                                        [g EXCEPT !.inventory = a.items, !.skills = sk]),
                                ran |-> "chop_ok", message |-> "The tree falls down!"]
                          ELSE [g |-> [g EXCEPT
                                         !.inventory = a.items,
                                         !.skills = sk,
                                         !.action_timer =
                                             ChopTime(sk.woodcutting.level,
                                                      Unwrap(axe).item_type.n)],
                                ran |-> "chop_ok", message |-> "You get a log."]
                 ELSE [g |-> CancelOngoingAction(g), ran |-> "chop_refused",
                       message |-> IF IsChopped(tree) \/ tree.fallen
                                   THEN "This tree is already chopped down."
                                   ELSE "You need a higher Woodcutting level to use this axe."]
        ELSE [g |-> CancelOngoingAction(g), ran |-> "chop_gone", message |-> ""]

\* A Fighting arm that makes the round and leaves the timer as it was.
ResolveFightUnarmed(g) ==
    LET target_index == g.ongoing_action.index
    IN  IF target_index < Len(g.entities)
        THEN LET target == g.entities[target_index + 1]
             IN  IF ~IsAlive(target)
                 THEN {[g |-> CancelOngoingAction(g), ran |-> "fight_dead",
                        victim |-> None, killed |-> FALSE]}
                 ELSE IF ~IsNear(target, g.player_x)
                 THEN {[g |-> SetDestination(g, target.x, PendingAttack),
                        ran |-> "fight_far", victim |-> None, killed |-> FALSE]}
                 ELSE {[g |-> r.g,
                        ran |-> "fight_round", victim |-> r.victim,
                        killed |-> r.killed] : r \in AttackNearestEntity(g)}
        ELSE {[g |-> CancelOngoingAction(g), ran |-> "fight_gone",
               victim |-> None, killed |-> FALSE]}

\* The Fighting arm of update_ongoing_action, once the timer has expired: the
\* outcomes the draws can give.
ResolveFight(g) ==
    LET target_index == g.ongoing_action.index
    IN  IF target_index < Len(g.entities)
        THEN LET target == g.entities[target_index + 1]
             IN  IF ~IsAlive(target)
                 THEN {[g |-> CancelOngoingAction(g), ran |-> "fight_dead",
                        victim |-> None, killed |-> FALSE]}
                 ELSE IF ~IsNear(target, g.player_x)
                 THEN {[g |-> SetDestination(g, target.x, PendingAttack),
                        ran |-> "fight_far", victim |-> None, killed |-> FALSE]}
                 ELSE {[g |-> [r.g EXCEPT !.action_timer = 240],
                        ran |-> "fight_round", victim |-> r.victim,
                        killed |-> r.killed] : r \in AttackNearestEntity(g)}
        ELSE {[g |-> CancelOngoingAction(g), ran |-> "fight_gone",
               victim |-> None, killed |-> FALSE]}

\* The Fishing arm of update_ongoing_action, once the timer has expired: the
\* outcomes the draw can give.  `spot_type` is the type of the spot the arm
\* fished.
ResolveFish(g) ==
    LET spot_index == g.ongoing_action.index
        x == g.ongoing_action.x
    IN  IF spot_index < Len(g.fishing_spots)
        THEN LET spot == g.fishing_spots[spot_index + 1]
                 rod == FindRod(g.inventory)
                 has_bait == BaitSlots(g.inventory) # {}
                 Caught(fish) ==
                     LET inv == IF spot.fish_type = "Trout" /\ has_bait
                                THEN RemoveItem(g.inventory,
                                                MinOf(BaitSlots(g.inventory))).items
                                ELSE g.inventory
                         a == InventoryAddItem(inv, fish)
                     IN  IF a.ok
                         THEN [g |-> [g EXCEPT
                                        !.inventory = a.items,
                                        !.skills = GainedSkills(g.skills, "fishing",
                                            IF spot.fish_type = "Shrimp" THEN 10 ELSE 50),
                                        !.action_timer = 300],
                               ran |-> "fish_caught", spot_type |-> spot.fish_type,
                               message |-> "You catch a fish."]
                         ELSE [g |-> InventoryIsFull([g EXCEPT !.inventory = inv]),
                               ran |-> "fish_full", spot_type |-> spot.fish_type,
                               message |-> "Your inventory is full."]
             IN  IF Abs(x - g.player_x) > InteractionRange
                 THEN {[g |-> SetDestination(g, x, PendingFish(x)), ran |-> "fish_far",
                        spot_type |-> spot.fish_type, message |-> ""]}
                 ELSE {IF IsSome(r)
                       THEN Caught(Unwrap(r))
                       ELSE [g |-> [g EXCEPT !.action_timer = 300],
                             ran |-> "fish_failed", spot_type |-> spot.fish_type,
                             message |-> "You fail to catch anything."] :
                       r \in TryFish(spot, g.skills, rod, has_bait)}
        ELSE {[g |-> CancelOngoingAction(g), ran |-> "fish_gone",
               spot_type |-> "none", message |-> ""]}

\* The frame time of the runs: 0.4 s.
DtChoices == {40}

\* action_timer keeps decreasing while nothing re-arms it; the code only
\* compares it with 0, so the model stops it at one longest frame below 0.
TimerFloor == 0 - 40

\* GameState::update_ongoing_action: the outcomes the draws can give, each
\* with the arm that ran.
UpdateOngoingAction(g, dt) ==
    LET g1 == [g EXCEPT !.action_timer = Max(@ - dt, TimerFloor)]
        Quiet(ran) == {[g |-> g1, ran |-> ran, victim |-> None, killed |-> FALSE,
                        spot_type |-> "none", message |-> ""]}
    IN  IF g1.action_timer <= 0
        THEN CASE g1.ongoing_action.kind = "ChoppingTree" ->
                    {[g |-> ResolveChop(g1).g, ran |-> ResolveChop(g1).ran,
                      victim |-> None, killed |-> FALSE, spot_type |-> "none",
                      message |-> ResolveChop(g1).message]}
               [] g1.ongoing_action.kind = "Fighting" ->
                    {[g |-> r.g, ran |-> r.ran, victim |-> r.victim,
                      killed |-> r.killed, spot_type |-> "none", message |-> ""] :
                        r \in ResolveFight(g1)}
               [] g1.ongoing_action.kind = "Fishing" ->
                    {[g |-> r.g, ran |-> r.ran, victim |-> None, killed |-> FALSE,
                      spot_type |-> r.spot_type, message |-> r.message] :
                        r \in ResolveFish(g1)}
               [] OTHER -> Quiet("idle")
        ELSE Quiet("waiting")

WorldUiUnchanged ==
    UNCHANGED <<steps, panicked, subject, bank, selected_bank_slot,
                selected_inventory_slot, equipment>>

\* The game fields take the values of the record g.
SetGame(g) ==
    /\ player_x' = g.player_x
    /\ target_x' = g.target_x
    /\ UNCHANGED <<player_y, target_y>>
    /\ pending_action' = g.pending_action
    /\ ongoing_action' = g.ongoing_action
    /\ action_timer' = g.action_timer
    /\ entities' = g.entities
    /\ world_objects' = g.world_objects
    /\ dropped_items' = g.dropped_items
    /\ inventory' = g.inventory
    /\ skills' = g.skills
    /\ player_combat' = g.player_combat

\* No arrival in the step.
NoArrival ==
    [intent |-> "none", cleared |-> FALSE, valid |-> FALSE, started |-> FALSE,
     ongoing |-> "None"]

\* The longest cadence of an action (3.0 s, fishing): elapsed times are
\* counted up to it.
LongestCadence == 300

\* The arms of update_ongoing_action that make an attempt: a chop, a combat
\* round, a fishing attempt.
Resolvers ==
    {"chop_ok", "chop_full", "chop_no_axe", "chop_refused", "fight_round",
     "fish_caught", "fish_failed", "fish_full"}

\* update_movement is in its arrival branch: a destination within 40.
Arrived(g) ==
    IsSome(g.target_x) /\ Abs(Unwrap(g.target_x) - g.player_x) <= InteractionRange

\* The target of the pending action is still there: the tree exists and is
\* not fallen, a living creature is near the player, a spot is near the
\* clicked point.
TargetValid(g) ==
    CASE g.pending_action.kind = "ChopTree" ->
           /\ g.pending_action.index < Len(g.world_objects)
           /\ ~g.world_objects[g.pending_action.index + 1].fallen
      [] g.pending_action.kind = "Attack" ->
           \E i \in DOMAIN g.entities :
               IsNear(g.entities[i], g.player_x) /\ IsAlive(g.entities[i])
      [] g.pending_action.kind = "Fish" ->
           \E i \in DOMAIN g.fishing_spots :
               SpotIsNear(g.fishing_spots[i], g.pending_action.index)
      [] OTHER -> FALSE

\* The target of the ongoing action is within 40 of the player.
TargetWithin(g) ==
    CASE g.ongoing_action.kind = "ChoppingTree" ->
           /\ g.ongoing_action.index < Len(g.world_objects)
           /\ Abs(g.world_objects[g.ongoing_action.index + 1].x - g.player_x)
                  <= InteractionRange
      [] g.ongoing_action.kind = "Fighting" ->
           /\ g.ongoing_action.index < Len(g.entities)
           /\ Abs(g.entities[g.ongoing_action.index + 1].x - g.player_x)
                  <= InteractionRange
      [] g.ongoing_action.kind = "Fishing" ->
           Abs(g.ongoing_action.x - g.player_x) <= InteractionRange
      [] OTHER -> FALSE

\* What the runs remember of the last step: the operation; the menu entry
\* chosen; whether an action was ongoing before the step; for an update, the
\* arm of update_ongoing_action that ran, the index its action held, the
\* creature attacked and whether it died, the Logs and the woodcutting XP
\* gained; the successful chops since the chopping started; whether the fight
\* under way has killed a creature with no player input since (before the
\* step and after it).  For the gathering arms also: the inventory and the
\* bait before the step, the fishing XP gained, the last message of the arm,
\* whether the tool and level requirements of the attempt were met, the type
\* of the spot the Fishing arm fished and of the spot the fishing started on,
\* where in fishing_spots that spot is now (None once it has expired), and
\* the arms that have found the inventory full so far.  For an update in
\* which update_movement arrived: what it found and left behind (arrival);
\* whether the timer had expired and the target of the action was within
\* range when update_ongoing_action ran; the frame time since the last
\* attempt of the action under way (elapsed) and, for an attempt, between it
\* and the one before (gap); the parity of the number of frames (frames).
GameRecord(op, intent, ran, index, victim, killed, logs_gained, xp_gained,
           chops, after_kill) ==
    [op |-> op, intent |-> intent, was_ongoing |-> ongoing_action.kind # "None",
     ran |-> ran, index |-> index, victim |-> victim, killed |-> killed,
     logs_gained |-> logs_gained, xp_gained |-> xp_gained, chops |-> chops,
     was_after_kill |-> last.after_kill, after_kill |-> after_kill,
     pre_inventory |-> inventory, fish_xp_gained |-> 0, message |-> "",
     requirement_met |-> TRUE, spot_type |-> "none",
     started_type |-> last.started_type, fished |-> last.fished,
     found_full |-> last.found_full, arrival |-> NoArrival,
     expired |-> FALSE, within |-> FALSE, elapsed |-> last.elapsed, gap |-> None,
     frames |-> last.frames]

InputRecord(op, intent) ==
    GameRecord(op, intent, "none", 0, None, FALSE, 0, 0, last.chops, FALSE)

\* spawn_fishing_spot: the spots the draws of the runs give.  PondXs are the
\* places on the line where a spot appears.
PondXs == {200}
FishTypes == {"Shrimp", "Trout"}

\* The fishing-spot part of EventHandler::update: the timer runs, a spot is
\* spawned when it expires, then every spot ages and the expired ones are
\* removed.  Gives the lists and timers the draws can lead to.
FishingSpotUpdates(spots, timer, dt) ==
    LET Aged(l) == SelectSeq([i \in DOMAIN l |-> SpotUpdate(l[i], dt)],
                             LAMBDA spot : spot.lifetime > 0)
    IN  IF timer - dt <= 0
        THEN {[spots |-> Aged(Append(spots, NewFishingSpot(x, t))), timer |-> 1000] :
                 x \in PondXs, t \in FishTypes}
        ELSE {[spots |-> Aged(spots), timer |-> timer - dt]}

\* Where the spot at (0-based) position pos of `spots` is after the spots
\* have aged by dt and the expired ones are removed: None when it expired.
FishedAfter(spots, dt, pos) ==
    IF spots[pos + 1].lifetime - dt <= 0
    THEN None
    ELSE Some(Cardinality({i \in 1 .. pos : spots[i].lifetime - dt > 0}))

\* Whether the attempt the gathering arm is about to make has its tool and
\* its level: an axe the woodcutting level can use; a rod, the fishing level
\* of the spot (1 for Shrimp, 15 for Trout) and, for Trout, bait.
RequirementMet(g) ==
    CASE g.ongoing_action.kind = "ChoppingTree" ->
           /\ IsSome(FindAxe(g.inventory))
           /\ g.skills.woodcutting.level >= Unwrap(FindAxe(g.inventory)).item_type.n
      [] g.ongoing_action.kind = "Fishing"
           /\ g.ongoing_action.index < Len(g.fishing_spots) ->
           LET spot == g.fishing_spots[g.ongoing_action.index + 1]
           IN  /\ IsSome(FindRod(g.inventory))
               /\ g.skills.fishing.level >= (IF spot.fish_type = "Trout" THEN 15 ELSE 1)
               /\ (spot.fish_type = "Trout" => BaitSlots(g.inventory) # {})
      [] OTHER -> TRUE

\* EventHandler::update for a frame of dt: the camera follows the player, the
\* entities are updated and the dead ones removed, the dropped items age,
\* the fishing spots are spawned, aged and removed, then update_movement and
\* update_ongoing_action.  (The trees of GameState.trees and the fires are
\* empty lists in the runs; the bank window is closed.)  `pond` tells whether
\* the line of the run crosses the pond: away from it the spots that spawn
\* are out of reach of every click of the run and the model leaves them out.
\* `clock` tells what the run keeps of the passing of time: nothing ("off"),
\* the time between attempts ("gaps") or the parity of the frames ("frames").
Frame(dt, pond, clock) ==
    \E ents \in AllEntityUpdates(entities, dt),
       f \in IF pond
             THEN FishingSpotUpdates(fishing_spots, fishing_spot_timer, dt)
             ELSE {[spots |-> fishing_spots, timer |-> fishing_spot_timer]} :
      \E g0 \in {[Game EXCEPT
                      !.entities = RetainAlive(ents),
                      !.dropped_items =
                          [i \in DOMAIN dropped_items |->
                              DroppedItemUpdate(dropped_items[i], dt)],
                      !.fishing_spots = f.spots]} :
      \E m \in {UpdateMovement(g0, dt)} :
        LET fished == IF m.started
                      THEN IF m.g.ongoing_action.kind = "Fishing"
                           THEN Some(m.g.ongoing_action.index) ELSE None
                      ELSE IF ongoing_action.kind = "Fishing" /\ IsSome(last.fished)
                           THEN FishedAfter(fishing_spots, dt, Unwrap(last.fished))
                           ELSE None
            started_type ==
                      IF m.started /\ m.g.ongoing_action.kind = "Fishing"
                      THEN f.spots[m.g.ongoing_action.index + 1].fish_type
                      ELSE last.started_type
            before == IF m.started \/ ongoing_action.kind = "None" \/ clock # "gaps"
                      THEN None ELSE last.elapsed
            since == IF IsSome(before)
                     THEN Some(Min(Unwrap(before) + dt, LongestCadence)) ELSE None
        IN  \E r \in UpdateOngoingAction(m.g, dt) :
                LET chops == (IF m.started THEN 0 ELSE last.chops)
                             + (IF r.ran = "chop_ok" THEN 1 ELSE 0)
                IN  /\ camera_x' = player_x - 512
                    /\ SetGame(r.g)
                    /\ fishing_spots' = f.spots
                    /\ fishing_spot_timer' = f.timer
                    /\ last' = [GameRecord("update", "none", r.ran,
                                   m.g.ongoing_action.index, r.victim, r.killed,
                                   TotalOf(r.g.inventory, "Logs")
                                       - TotalOf(inventory, "Logs"),
                                   r.g.skills.woodcutting.experience.lo
                                       - skills.woodcutting.experience.lo,
                                   chops,
                                   /\ r.g.ongoing_action.kind = "Fighting"
                                   /\ (r.killed \/ (last.after_kill /\ ~m.started)))
                                EXCEPT
                                   !.fish_xp_gained =
                                       r.g.skills.fishing.experience.lo
                                           - skills.fishing.experience.lo,
                                   !.message = r.message,
                                   !.requirement_met = RequirementMet(m.g),
                                   !.spot_type = r.spot_type,
                                   !.started_type = started_type,
                                   !.fished = fished,
                                   !.found_full =
                                       @ \cup ({r.ran} \cap {"chop_full", "fish_full"}),
                                   !.arrival =
                                       IF Arrived(g0)
                                       THEN [intent |-> pending_action.kind,
                                             cleared |-> /\ m.g.target_x = None
                                                         /\ m.g.pending_action = PendingNone,
                                             valid |-> TargetValid(g0),
                                             started |-> m.started,
                                             ongoing |-> m.g.ongoing_action.kind]
                                       ELSE NoArrival,
                                   !.expired = m.g.action_timer - dt <= 0,
                                   !.within = TargetWithin(m.g),
                                   !.elapsed = IF r.ran \in Resolvers /\ clock = "gaps"
                                               THEN Some(0) ELSE since,
                                   !.gap = IF r.ran \in Resolvers
                                           THEN since ELSE None,
                                   !.frames = IF clock = "frames" THEN 1 - @ ELSE @]
                    /\ UNCHANGED context_menu
                    /\ WorldUiUnchanged

UpdateFrame(dt, pond) == Frame(dt, pond, "off")

\* A frame on a line away from the pond.
Update(dt) == UpdateFrame(dt, FALSE)

\* A frame on a line across the pond.
UpdatePond(dt) == UpdateFrame(dt, TRUE)

\* ContextMenu::new, and the menu after ContextMenu::hide.  hide() leaves x as
\* it was; nothing reads x before the next show() sets it, so the model keeps
\* 0 there.
HiddenMenu == [visible |-> FALSE, x |-> 0, items |-> <<>>]

\* A world position is on the 1024 pixel wide screen.
OnScreen(wx) == wx - camera_x >= 0 /\ wx - camera_x <= 1024

\* The entries handle_world_click collects for a right click at wx.
MenuEntries(wx) ==
    LET near_objects == {i \in DOMAIN world_objects :
                            Abs(world_objects[i].x - wx) < InteractionRange}
        for_object ==
            IF near_objects = {} THEN <<>>
            ELSE LET obj == world_objects[MinOf(near_objects)]
                 IN  IF obj.object_type = "Tree"
                     THEN (IF obj.fallen THEN <<>> ELSE <<"ChopTree">>) \o <<"Examine">>
                     ELSE <<"Examine">>
        for_item ==
            IF \E i \in DOMAIN dropped_items :
                   Abs(dropped_items[i].x - wx) < InteractionRange
            THEN <<"PickupItem", "Examine">> ELSE <<>>
        for_entity ==
            IF \E i \in DOMAIN entities :
                   IsNear(entities[i], wx) /\ IsAlive(entities[i])
            THEN <<"Attack", "Examine">> ELSE <<>>
        for_spot ==
            IF \E i \in DOMAIN fishing_spots : SpotIsNear(fishing_spots[i], wx)
            THEN <<"Fish", "Examine">> ELSE <<>>
    IN  for_object \o for_item \o for_entity \o for_spot

\* Where the player stands when the runs begin (a saved position).
PlayerStart == 420

\* The places the player clicks in the runs: a world object, a creature, a
\* dropped item, or the open ground at WalkSpot.
WalkSpot == PlayerStart

\* The clicks of the runs land within ClickReach of WalkSpot.  (A menu entry
\* is clicked where the menu is on the screen, so its world position drifts
\* with the camera while the player walks.)
ClickReach == 100

InReach(wx) == Abs(wx - WalkSpot) <= ClickReach

ClickXs ==
    {world_objects[i].x : i \in DOMAIN world_objects}
        \cup {entities[i].x : i \in DOMAIN entities}
        \cup {dropped_items[i].x : i \in DOMAIN dropped_items}
        \cup {fishing_spots[i].x : i \in DOMAIN fishing_spots}
        \cup {WalkSpot}

\* handle_world_click with the left button (no context menu shown, the click
\* outside the windows): the ongoing action is cancelled and the player walks
\* to the place.
LeftClickWorld(wx) ==
    /\ ~context_menu.visible
    /\ OnScreen(wx)
    /\ SetGame(SetDestination(CancelOngoingAction(Game), wx, PendingNone))
    /\ last' = InputRecord("left_click", "none")
    /\ UNCHANGED <<camera_x, context_menu, fishing_spots, fishing_spot_timer>>
    /\ WorldUiUnchanged

\* handle_world_click with the right button: the context menu of the place
\* is shown, or the player walks there when it offers nothing.
RightClickWorld(wx) ==
    /\ ~context_menu.visible
    /\ OnScreen(wx)
    /\ IF MenuEntries(wx) # <<>>
       THEN /\ context_menu' = [visible |-> TRUE, x |-> wx - camera_x,
                                items |-> MenuEntries(wx)]
            /\ SetGame(Game)
       ELSE /\ context_menu' = context_menu
            /\ SetGame(SetDestination(Game, wx, PendingNone))
    /\ last' = InputRecord("right_click", "none")
    /\ UNCHANGED <<camera_x, fishing_spots, fishing_spot_timer>>
    /\ WorldUiUnchanged

\* GameState::handle_context_action(action, x, y) for the intents of the
\* world menu.
HandleContextAction(g, action, x) ==
    CASE action = "ChopTree" ->
           LET trees == {i \in DOMAIN g.world_objects :
                            /\ g.world_objects[i].object_type = "Tree"
                            /\ ~g.world_objects[i].fallen}
               Dist(i) == Abs(g.world_objects[i].x - x)
               closest == MinOf({i \in trees : \A j \in trees : Dist(i) <= Dist(j)})
           IN  IF trees # {} /\ Dist(closest) < 100
               THEN SetDestination(g, g.world_objects[closest].x,
                                   PendingChopTree(closest - 1))
               ELSE g
      [] action = "PickupItem" ->
           LET found == FirstIndex({i \in DOMAIN g.dropped_items :
                                       Abs(g.dropped_items[i].x - x) < InteractionRange})
           IN  IF IsSome(found)
               THEN SetDestination(g, x, PendingPickupItem(Unwrap(found)))
               ELSE g
      [] action = "Attack" -> SetDestination(g, x, PendingAttack)
      [] action = "Fish" -> SetDestination(g, x, PendingFish(x))
      [] OTHER -> g

\* How far right of the menu's left edge the player clicks an entry (the menu
\* is 100 pixels wide).
MenuOffsets == {0}

\* mouse_button_down_event with the context menu shown, the click on entry
\* number i of the menu: the entry's action is handled at the world position
\* of that click, and the menu is hidden.  (The click is taken on the line:
\* the 20 pixel rows of the menu are not told apart in height.)
ClickMenu(i, offset) ==
    /\ context_menu.visible
    /\ i \in DOMAIN context_menu.items
    /\ SetGame(HandleContextAction(Game, context_menu.items[i],
                                   context_menu.x + offset + camera_x))
    /\ context_menu' = HiddenMenu
    /\ last' = InputRecord("menu_click", context_menu.items[i])
    /\ UNCHANGED <<camera_x, fishing_spots, fishing_spot_timer>>
    /\ WorldUiUnchanged

\* The menu clicks of the runs that walk: those within reach of WalkSpot.
ClickMenuEntry(i, offset) ==
    /\ InReach(context_menu.x + offset + camera_x)
    /\ ClickMenu(i, offset)

\* mouse_button_down_event with the context menu shown, the click outside
\* the menu: the menu is hidden and nothing else happens.
ClickOutsideMenu ==
    /\ context_menu.visible
    /\ context_menu' = HiddenMenu
    /\ SetGame(Game)
    /\ last' = InputRecord("menu_dismiss", "none")
    /\ UNCHANGED <<camera_x, fishing_spots, fishing_spot_timer>>
    /\ WorldUiUnchanged

\* Entity with `damage` taken (Combat::take_damage by earlier fight rounds).
Wounded(entity, damage) == [entity EXCEPT !.combat = TakeDamage(@, damage)]

\* The scenes of the runs.  The grove: two trees, and a player fresh from a
\* save with a Bronze Axe or with nothing.  The camp: two goblins the player
\* has fought before, hit 8 and 9 times for 1 (4 attack XP a hit) with every
\* retaliation a miss, and the player back at the start with nothing.
Scenes ==
    {[world_objects |-> <<NewTree(288), NewTree(552)>>, entities |-> <<>>,
      skills |-> SkillsNew, inventory |-> inv] :
        inv \in {[EmptySlots(InvCapacity) EXCEPT ![0] = Some(bronze_axe)],
                 EmptySlots(InvCapacity)}}
    \cup
    {[world_objects |-> <<>>,
      entities |-> <<Wounded(NewGoblin(356), 8), Wounded(NewGoblin(386), 9)>>,
      skills |-> GainedSkills(SkillsNew, "attack", 4 * (8 + 9)),
      inventory |-> EmptySlots(InvCapacity)]}

\* Nothing has happened yet.
NoGameRecord ==
    [op |-> "none", intent |-> "none", was_ongoing |-> FALSE,
     ran |-> "none", index |-> 0, victim |-> None, killed |-> FALSE,
     logs_gained |-> 0, xp_gained |-> 0, chops |-> 0,
     was_after_kill |-> FALSE, after_kill |-> FALSE,
     pre_inventory |-> inventory, fish_xp_gained |-> 0, message |-> "",
     requirement_met |-> TRUE, spot_type |-> "none",
     started_type |-> "none", fished |-> None, found_full |-> {},
     arrival |-> NoArrival, expired |-> FALSE, within |-> FALSE,
     elapsed |-> None, gap |-> None, frames |-> 0]

InitGame ==
    /\ steps = 0
    /\ panicked = FALSE
    /\ subject = "Inventory"
    /\ bank = EmptySlots(BankCapacity)
    /\ selected_bank_slot = None
    /\ selected_inventory_slot = None
    /\ player_x = PlayerStart
    /\ player_y = 0
    /\ camera_x = PlayerStart - 512
    /\ target_x = None
    /\ target_y = None
    /\ pending_action = PendingNone
    /\ ongoing_action = OngoingNone
    /\ action_timer = TimerFloor
    /\ \E scene \in Scenes :
          /\ entities = scene.entities
          /\ world_objects = scene.world_objects
          /\ skills = scene.skills
          /\ inventory = scene.inventory
    /\ dropped_items = <<>>
    /\ player_combat = CombatNew(20)
    /\ context_menu = HiddenMenu
    /\ fishing_spots = <<>>
    /\ fishing_spot_timer = 0
    /\ equipment = EquipmentNew
    /\ last = NoGameRecord

NextGame ==
    \/ \E dt \in DtChoices : Update(dt)
    \/ \E wx \in ClickXs : LeftClickWorld(wx)
    \/ \E wx \in ClickXs : RightClickWorld(wx)
    \/ \E i \in 1 .. 4, offset \in MenuOffsets : ClickMenuEntry(i, offset)
    \/ ClickOutsideMenu

SpecGame == InitGame /\ [][NextGame]_vars

\* C1: in the chopping scenario (woodcutting level 1, a Bronze Axe, free
\* inventory space, a tree of health 3) every successful chop tick adds one
\* Logs and 25 woodcutting XP, there are no more than three of them, and on
\* the third the tree is fallen and ongoing_action is None.
C1_ThreeChopsFellTree ==
    (last.op = "update" /\ last.ran = "chop_ok") =>
        /\ last.logs_gained = 1
        /\ last.xp_gained = 25
        /\ last.chops <= 3
        /\ last.chops = 3 =>
              /\ world_objects[last.index + 1].fallen
              /\ ongoing_action.kind = "None"

\* C2: once a fight round has killed a creature, with no player input since,
\* an update runs no further fight round and sets no destination, and at the
\* first expiry of the action timer ongoing_action is None.
C2_KillEndsFight ==
    (last.op = "update" /\ last.was_after_kill) =>
        /\ last.ran \notin {"fight_round", "fight_far"}
        /\ last.ran # "waiting" => ongoing_action.kind = "None"

\* C3: a left click on the world, or the choice of a Chop tree, Attack, Fish
\* or Pick up entry of the context menu, made while an action is ongoing,
\* leaves ongoing_action None and action_timer 0.
C3_ExplicitCancelStopsAction ==
    (/\ last.was_ongoing
     /\ \/ last.op = "left_click"
        \/ /\ last.op = "menu_click"
           /\ last.intent \in {"ChopTree", "Attack", "Fish", "PickupItem"}) =>
        /\ ongoing_action.kind = "None"
        /\ action_timer = 0

(***************************************************************************)
(* combat.rs: Combat::attack called with skills of any level and with any  *)
(* non-negative equipment bonuses.                                         *)
(***************************************************************************)

\* A skill that has just reached `level`.
SkillAtLevel(level) == [level |-> level, experience |-> U32(CumXp(level - 1))]

SkillsAtLevels(attack, strength, defense) ==
    [SkillsNew EXCEPT !.attack = SkillAtLevel(attack),
                      !.strength = SkillAtLevel(strength),
                      !.defense = SkillAtLevel(defense)]

\* The levels of the attack runs: the lowest and the highest.
LevelChoices == {1, MaxLevel}

\* The largest strength and defense bonuses of the attack runs.
LargeStrengthBonus == 2550
LargeDefenseBonus == 1000

\* Bonuses: none, those of the bronze kit (sword 4 / 3, armour 3 + 5 + 4),
\* and large ones.
AttackBonusChoices == {0, 4}
StrengthBonusChoices == {0, 3, LargeStrengthBonus}
DefenseBonusChoices == {0, 12, LargeDefenseBonus}

\* Every variable but `last` keeps its value.
OnlyLastChanges ==
    /\ UNCHANGED <<skills, steps, panicked, subject, inventory, bank>>
    /\ UiUnchanged

\* The arguments of a call, before it is made.
AttackArguments(attack, strength, defense, attack_bonus, strength_bonus, defense_bonus) ==
    [op |-> "arguments", attack |-> attack, strength |-> strength,
     defense |-> defense, attack_bonus |-> attack_bonus,
     strength_bonus |-> strength_bonus, defense_bonus |-> defense_bonus,
     hit_percent |-> 0, ret |-> None]

\* Combat::attack(attacker_skills, defender_skills, attack_bonus,
\* strength_bonus, defender_defense_bonus) on the arguments drawn.
CallAttack ==
    LET attacker == SkillsAtLevels(last.attack, last.strength, 1)
        defender == SkillsAtLevels(1, 1, last.defense)
    IN  /\ last.op = "arguments"
        /\ \E ret \in AttackRolls(attacker, defender, last.attack_bonus,
                                   last.strength_bonus, last.defense_bonus) :
               last' = [last EXCEPT
                          !.op = "attack",
                          !.hit_percent = HitPercent(attacker, defender,
                                              last.attack_bonus, last.defense_bonus),
                          !.ret = ret]
        /\ OnlyLastChanges

InitCombat ==
    /\ skills = SkillsNew
    /\ steps = 0
    /\ panicked = FALSE
    /\ subject = "Inventory"
    /\ inventory = EmptySlots(InvCapacity)
    /\ bank = EmptySlots(BankCapacity)
    /\ \E attack \in LevelChoices, strength \in LevelChoices,
          defense \in LevelChoices, attack_bonus \in AttackBonusChoices,
          strength_bonus \in StrengthBonusChoices,
          defense_bonus \in DefenseBonusChoices :
          last = AttackArguments(attack, strength, defense, attack_bonus,
                                 strength_bonus, defense_bonus)
    /\ selected_bank_slot = None
    /\ selected_inventory_slot = None
    /\ WorldNew

NextCombat == CallAttack

SpecCombat == InitCombat /\ [][NextCombat]_vars

\* C11: Combat::attack returns None or Some(d) with
\* 1 <= d <= 1 + floor((strength level + strength bonus) / 10), and the hit
\* chance it uses is max(0.5 + 0.01 * (attack level + attack bonus)
\* - 0.01 * (defense level + defense bonus), 0.10), never below 0.10.
C11_AttackDamageAndHitChance ==
    last.op = "attack" =>
        /\ last.ret # None =>
              /\ Unwrap(last.ret) >= 1
              /\ Unwrap(last.ret) <= 1 + (last.strength + last.strength_bonus) \div 10
        /\ last.hit_percent >= 10
        /\ last.hit_percent =
              Max(50 + (last.attack + last.attack_bonus)
                     - (last.defense + last.defense_bonus), 10)

(***************************************************************************)
(* Fishing at the pond: the line of the run crosses the pond, the player   *)
(* stands where the spots appear.                                          *)
(***************************************************************************)

\* Where the player stands in the pond runs (a saved position), and where
\* the clicks of those runs land.
PondStart == 200

\* Frame times of the pond runs, in hundredths of a second.
PondDtChoices == {100}

\* An inventory holding the items of `items` in its first slots.
InventoryWith(items) ==
    [i \in 0 .. InvCapacity - 1 |-> IF i < Len(items) THEN Some(items[i + 1]) ELSE None]

\* The fishing level Trout asks for.
TroutLevel == 15

\* Where the tree by the pond stands, in reach of PondStart.
PondTree == 232

\* The players of the pond runs: a new player (fishing level 1) with
\* nothing or with a rod; a new player with a rod, an axe and every other
\* slot taken by Logs, by the pond tree; and a player of the fishing level
\* Trout asks for, with a rod and bait, or with a rod, bait and every other
\* slot taken by Logs.
PondPlayers ==
    {[level |-> 1, kit |-> kit, trees |-> <<>>] :
        kit \in {<<>>, <<fishing_rod>>}}
    \cup
    {[level |-> 1, trees |-> <<NewTree(PondTree)>>,
      kit |-> <<fishing_rod, bronze_axe>> \o [i \in 1 .. InvCapacity - 2 |-> logs]]}
    \cup
    {[level |-> TroutLevel, kit |-> kit, trees |-> <<>>] :
        kit \in {<<fishing_rod, bait>>,
                 <<fishing_rod, bait>> \o [i \in 1 .. InvCapacity - 2 |-> logs]}}

InitFishing ==
    /\ steps = 0
    /\ panicked = FALSE
    /\ subject = "Inventory"
    /\ bank = EmptySlots(BankCapacity)
    /\ selected_bank_slot = None
    /\ selected_inventory_slot = None
    /\ player_x = PondStart
    /\ player_y = 0
    /\ camera_x = PondStart - 512
    /\ target_x = None
    /\ target_y = None
    /\ pending_action = PendingNone
    /\ ongoing_action = OngoingNone
    /\ action_timer = TimerFloor
    /\ entities = <<>>
    /\ \E player \in PondPlayers :
          /\ world_objects = player.trees
          /\ skills = [SkillsNew EXCEPT !.fishing = SkillAtLevel(player.level)]
          /\ inventory = InventoryWith(player.kit)
    /\ dropped_items = <<>>
    /\ player_combat = CombatNew(20)
    /\ context_menu = HiddenMenu
    /\ fishing_spots = <<>>
    /\ fishing_spot_timer = 0
    /\ equipment = EquipmentNew
    /\ last = NoGameRecord

NextFishing ==
    \/ \E dt \in PondDtChoices : UpdatePond(dt)
    \/ LeftClickWorld(PondStart)
    \/ RightClickWorld(PondStart)
    \/ \E i \in 1 .. 4, offset \in MenuOffsets : ClickMenu(i, offset)
    \/ ClickOutsideMenu

SpecFishing == InitFishing /\ [][NextFishing]_vars

\* The arms of update_ongoing_action that fish a spot.
FishTicks == {"fish_caught", "fish_failed", "fish_full"}

\* A fishing tick of the last frame resolved at a spot of type fish_type.
FishTickAt(fish_type) ==
    /\ last.op = "update"
    /\ last.ran \in FishTicks
    /\ last.spot_type = fish_type

\* C12: try_fish at a Trout spot with bait = false returns None for every
\* fishing level and every rod argument, and a fishing tick at a Trout spot
\* with no Bait in the inventory catches nothing: it adds no Raw Trout and
\* grants no fishing XP.
C12_NoTroutWithoutBait ==
    /\ \A level \in {1, TroutLevel - 1, TroutLevel, MaxLevel},
          rod \in {None, Some(fishing_rod)} :
          TryFish(NewFishingSpot(PondStart, "Trout"),
                  [skills EXCEPT !.fishing.level = level], rod, FALSE)
              = {None}
    /\ (FishTickAt("Trout") /\ BaitSlots(last.pre_inventory) = {}) =>
          /\ last.ran = "fish_failed"
          /\ last.fish_xp_gained = 0
          /\ TotalOf(inventory, "Raw Trout") = TotalOf(last.pre_inventory, "Raw Trout")

\* A tick at a Trout spot with a rod and fishing level 15 but no bait.
C12_Witness ==
    /\ FishTickAt("Trout")
    /\ BaitSlots(last.pre_inventory) = {}
    /\ IsSome(FindRod(last.pre_inventory))
    /\ skills.fishing.level >= TroutLevel

\* The arms of update_ongoing_action that make a gathering attempt (the
\* target exists and is in range).
GatherTicks == {"chop_ok", "chop_full", "chop_no_axe", "chop_refused"} \cup FishTicks

\* C14: when the tool or level requirement of a gathering attempt is not met
\* (no axe, woodcutting level below the axe's; no rod, fishing level below
\* the spot's, a Trout spot without bait), the timer expiry cancels the
\* action (ongoing_action None, action_timer 0) and consumes nothing,
\* instead of re-arming the timer.
C14_UnmetRequirementCancels ==
    (last.op = "update" /\ last.ran \in GatherTicks /\ ~last.requirement_met) =>
        /\ ongoing_action.kind = "None"
        /\ action_timer = 0
        /\ inventory = last.pre_inventory

\* C15: a chop or fishing tick that produces an item the inventory cannot
\* take (add_item returns false) cancels the action with the message "Your
\* inventory is full.", grants no XP, and leaves the inventory, the bait
\* included, as it was.
C15_FullInventoryCancels ==
    (last.op = "update" /\ last.ran \in {"chop_full", "fish_full"}) =>
        /\ ongoing_action.kind = "None"
        /\ action_timer = 0
        /\ last.message = "Your inventory is full."
        /\ last.xp_gained = 0
        /\ last.fish_xp_gained = 0
        /\ inventory = last.pre_inventory
        /\ BaitSlots(inventory) = BaitSlots(last.pre_inventory)

\* A tick of the last frame found the inventory full, and both a chop tick
\* and a fishing tick have found it full in the run.
C15_Witness ==
    /\ last.op = "update"
    /\ last.ran \in {"chop_full", "fish_full"}
    /\ last.found_full = {"chop_full", "fish_full"}
    /\ last.requirement_met
    /\ \A i \in DOMAIN last.pre_inventory : IsSome(last.pre_inventory[i])

\* C16: once the spot being fished has expired and been removed, the Fishing
\* action is cancelled at its next timer expiry: a fishing tick is always
\* resolved at the spot the fishing started on, never at a spot that has
\* moved into spot_index, and a catch is of that spot's type.
C16_ExpiredSpotCancels ==
    (last.op = "update" /\ last.ran \in FishTicks) =>
        /\ last.fished = Some(last.index)
        /\ last.ran = "fish_caught" => last.spot_type = last.started_type

(***************************************************************************)
(* The Equipment interface, and the one place the game calls it.           *)
(***************************************************************************)

\* The items handed to the calls: the four equippable constructors and one
\* that is neither a weapon nor armor.
EquipItems == {bronze_sword, bronze_helmet, bronze_platebody, bronze_platelegs, logs}

EquipmentRecord(op, item, ret) == [op |-> op, item |-> item, ret |-> ret]

\* Only the equipment and the record of the call change.
OnlyEquipmentChanges ==
    UNCHANGED <<skills, steps, panicked, subject, inventory, bank,
                selected_bank_slot, selected_inventory_slot,
                player_x, player_y, camera_x, target_x, target_y, pending_action, ongoing_action,
                action_timer, entities, world_objects, dropped_items,
                player_combat, context_menu, fishing_spots, fishing_spot_timer>>

CallEquipWeapon(item) ==
    LET r == EquipWeapon(equipment, item)
    IN  /\ equipment' = r.equipment
        /\ last' = EquipmentRecord("equip_weapon", Some(item), r.ret)
        /\ OnlyEquipmentChanges

CallEquipArmor(item) ==
    LET r == EquipArmor(equipment, item)
    IN  /\ equipment' = r.equipment
        /\ last' = EquipmentRecord("equip_armor", Some(item), r.ret)
        /\ OnlyEquipmentChanges

CallUnequipWeapon ==
    LET r == UnequipWeapon(equipment)
    IN  /\ equipment' = r.equipment
        /\ last' = EquipmentRecord("unequip_weapon", None, r.ret)
        /\ OnlyEquipmentChanges

CallUnequipArmor(slot) ==
    LET r == UnequipArmor(equipment, slot)
    IN  /\ equipment' = r.equipment
        /\ last' = EquipmentRecord("unequip_armor", None, r.ret)
        /\ OnlyEquipmentChanges

\* GameState::handle_inventory_click on a slot with no item selected, the
\* equip branch: a Weapon or Armor item leaves the inventory and is equipped
\* by the call for its type, and the item it replaces goes to the inventory.
ClickToEquip(slot) ==
    /\ slot \in DOMAIN inventory
    /\ IsSome(inventory[slot])
    /\ Unwrap(inventory[slot]).item_type.cat \in {"Weapon", "Armor"}
    /\ CanEquip(Unwrap(inventory[slot]))
    /\ LET removed == RemoveItem(inventory, slot)
           item == Unwrap(removed.ret)
           r == IF item.item_type.cat = "Weapon"
                THEN EquipWeapon(equipment, item)
                ELSE EquipArmor(equipment, item)
       IN  /\ equipment' = r.equipment
           /\ inventory' = IF IsSome(r.ret)
                           THEN InventoryAddItem(removed.items, Unwrap(r.ret)).items
                           ELSE removed.items
           /\ last' = EquipmentRecord("click_to_equip", Some(item), r.ret)
    /\ UNCHANGED <<skills, steps, panicked, subject, bank>>
    /\ UNCHANGED <<selected_bank_slot, selected_inventory_slot,
                   player_x, player_y, camera_x, target_x, target_y, pending_action, ongoing_action,
                   action_timer, entities, world_objects, dropped_items,
                   player_combat, context_menu, fishing_spots, fishing_spot_timer>>

\* The inventories of the equipment runs.
EquipKits ==
    {<<bronze_sword, bronze_helmet, logs>>, <<bronze_platebody, bronze_platelegs>>,
     <<bronze_sword, bronze_platebody>> \o [i \in 1 .. InvCapacity - 2 |-> logs]}

InitEquipment ==
    /\ skills = SkillsNew
    /\ steps = 0
    /\ panicked = FALSE
    /\ subject = "Equipment"
    /\ \E kit \in EquipKits : inventory = InventoryWith(kit)
    /\ bank = EmptySlots(BankCapacity)
    /\ last = EquipmentRecord("none", None, None)
    /\ selected_bank_slot = None
    /\ selected_inventory_slot = None
    /\ WorldNew

NextEquipment ==
    \/ \E item \in EquipItems : CallEquipWeapon(item)
    \/ \E item \in EquipItems : CallEquipArmor(item)
    \/ CallUnequipWeapon
    \/ \E slot \in ArmorSlots : CallUnequipArmor(slot)
    \/ \E slot \in 0 .. InvCapacity - 1 : ClickToEquip(slot)

SpecEquipment == InitEquipment /\ [][NextEquipment]_vars

\* C17: after any sequence of equip_weapon, equip_armor, unequip_weapon and
\* unequip_armor calls with arbitrary items, every occupied equipment slot
\* holds an item of the slot's category: the weapon slot a Weapon, and head,
\* body and legs an Armor whose ArmorSlot is that slot.
C17_EquipmentSlotsMatch ==
    /\ IsSome(equipment.weapon) =>
          Unwrap(equipment.weapon).item_type.cat = "Weapon"
    /\ \A slot \in ArmorSlots :
          IsSome(equipment[ArmorField(slot)]) =>
              /\ Unwrap(equipment[ArmorField(slot)]).item_type.cat = "Armor"
              /\ Unwrap(equipment[ArmorField(slot)]).item_type.sub = slot

\* The fields of the equipment.
EquipmentFields == {"weapon", "head", "body", "legs"}

\* The equipment slot an item belongs to.
MatchingField(item) ==
    IF item.item_type.cat = "Weapon" THEN "weapon" ELSE ArmorField(item.item_type.sub)

\* How many of the name one equipment slot holds.
WornOf(eq, field, name) ==
    IF IsSome(eq[field]) /\ Unwrap(eq[field]).name = name
    THEN Unwrap(eq[field]).quantity ELSE 0

\* How many of the name the inventory and the equipment hold together.
HeldOf(inv, eq, name) ==
    TotalOf(inv, name) + WornOf(eq, "weapon", name) + WornOf(eq, "head", name)
        + WornOf(eq, "body", name) + WornOf(eq, "legs", name)

\* C29: a click on a weapon or an armor piece in the inventory, whatever the
\* inventory holds and also when it is full, leaves the clicked item in the
\* equipment slot of its type and the item that was there in the inventory,
\* and the inventory and the equipment together hold the same items as
\* before.
C29_EquipClickConservesItems ==
    [][last'.op = "click_to_equip" =>
          LET item == Unwrap(last'.item)
          IN  /\ equipment'[MatchingField(item)] = Some(item)
              /\ \A field \in EquipmentFields \ {MatchingField(item)} :
                     equipment'[field] = equipment[field]
              /\ last'.ret = equipment[MatchingField(item)]
              /\ IsSome(last'.ret) =>
                     \E i \in DOMAIN inventory' :
                         /\ IsSome(inventory'[i])
                         /\ Unwrap(inventory'[i]).name = Unwrap(last'.ret).name
              /\ \A other \in EquipItems :
                     HeldOf(inventory', equipment', other.name)
                         = HeldOf(inventory, equipment, other.name)]_vars

\* A click on a full inventory that replaced an equipped item: the
\* inventory is as full as before.
C29_Witness ==
    /\ last.op = "click_to_equip"
    /\ IsSome(last.ret)
    /\ Unwrap(last.ret).name # Unwrap(last.item).name
    /\ \A i \in DOMAIN inventory : IsSome(inventory[i])

\* The slots of a container that hold an item of the name.
SlotsNamed(items, name) ==
    {i \in DOMAIN items : IsSome(items[i]) /\ Unwrap(items[i]).name = name}

\* C13: Deposit-All with an inventory slot selected moves the full quantity
\* of every inventory slot holding the selected item's name into a single
\* bank stack (when the bank holds the name already or has an empty slot):
\* afterwards no inventory slot holds the name, and exactly one bank slot
\* holds it, with the bank's and the inventory's quantities added up.
C13_DepositAllMovesEveryStack ==
    (/\ last.op = "deposit_all_items"
     /\ IsSome(GetItem(last.pre_inventory, last.index))
     /\ \E i \in DOMAIN last.pre_bank :
           \/ last.pre_bank[i] = None
           \/ Unwrap(last.pre_bank[i]).name = Unwrap(last.pre_inventory[last.index]).name) =>
        LET name == Unwrap(last.pre_inventory[last.index]).name
        IN  /\ SlotsNamed(inventory, name) = {}
            /\ Cardinality(SlotsNamed(bank, name)) = 1
            /\ TotalOf(bank, name)
                   = TotalOf(last.pre_bank, name) + TotalOf(last.pre_inventory, name)

(***************************************************************************)
(* Invariants of the containers (checked under SpecContainers, whose runs  *)
(* start from an empty Inventory or Bank)                                  *)
(***************************************************************************)

\* C18: in every Inventory reachable from an empty one through add_item,
\* remove_item and remove_items, with items of any stackable flag and any
\* name, no two occupied slots hold stackable items of the same name.
C18_OneStackPerNameInInventory ==
    subject = "Inventory" =>
        \A i, j \in Occupied(inventory) :
            (/\ i # j
             /\ IsStackable(Unwrap(inventory[i]))
             /\ IsStackable(Unwrap(inventory[j]))) =>
                Unwrap(inventory[i]).name # Unwrap(inventory[j]).name

\* A stackable item was added to an inventory that held its name and had an
\* empty slot, and the inventory now has two slots of the name, one of them
\* not stackable.
C18_Witness ==
    /\ last.op = "Inventory::add_item"
    /\ IsStackable(Added)
    /\ SameName(last.pre_inventory, Added) # {}
    /\ Cardinality(SlotsNamed(inventory, Added.name)) = 2
    /\ \E i \in SlotsNamed(inventory, Added.name) : IsStackable(Unwrap(inventory[i]))

\* C19: in every Bank reachable from an empty one through add_item,
\* remove_item and remove_items, no two occupied slots hold items of the same
\* name, whatever the items' stackable flags.
C19_OneSlotPerNameInBank ==
    subject = "Bank" =>
        \A i, j \in Occupied(bank) :
            i # j => Unwrap(bank[i]).name # Unwrap(bank[j]).name

\* An item that is not stackable was added to a bank that held its name and
\* had an empty slot, and the bank still has one slot of the name.
C19_Witness ==
    /\ last.op = "Bank::add_item"
    /\ ~IsStackable(Added)
    /\ SameName(last.pre_bank, Added) # {}
    /\ EmptyIndices(last.pre_bank) # {}
    /\ Cardinality(SlotsNamed(bank, Added.name)) = 1
    /\ last.ok

IsRemove ==
    last.op \in {"Inventory::remove_item", "Bank::remove_item",
                 "Inventory::remove_items", "Bank::remove_items"}

\* C20: starting from containers whose items all have quantity >= 1, after
\* any add and remove calls with any amount (remove_items(slot, 0) included)
\* every item stored in a slot and every item returned by remove_item or
\* remove_items has quantity >= 1.
C20_QuantitiesAtLeastOne ==
    /\ \A i \in Occupied(inventory) : Unwrap(inventory[i]).quantity >= 1
    /\ \A i \in Occupied(bank) : Unwrap(bank[i]).quantity >= 1
    /\ (IsRemove /\ IsSome(last.ret)) => Unwrap(last.ret).quantity >= 1

(***************************************************************************)
(* Slot indices at or past the capacity (checked under SpecContainers)     *)
(***************************************************************************)

IndexedOps ==
    {"Inventory::get_item", "Bank::get_item", "Inventory::remove_item",
     "Bank::remove_item", "Inventory::remove_items", "Bank::remove_items",
     "Inventory::use_item"}

OutOfRangeCall ==
    last.op \in IndexedOps /\ last.index >= Cardinality(DOMAIN PreItems)

\* C21: get_item, remove_item, remove_items and use_item called with a slot
\* index at or past the capacity return None (false for use_item), do not
\* abort and leave every slot of the container as it was.
C21_OutOfRangeIndexIsNoOp ==
    OutOfRangeCall =>
        /\ last.ret = None
        /\ ~last.ok
        /\ PostItems = PreItems
        /\ ~panicked

\* An out-of-range removal asked of a container whose slots are all occupied.
C21_Witness ==
    /\ OutOfRangeCall
    /\ last.op \in {"Inventory::remove_item", "Bank::remove_item"}
    /\ Occupied(PreItems) = DOMAIN PreItems
    /\ PostItems = PreItems

\* The last call took part of a stack and left the rest in the slot.
SplitOff ==
    /\ IsRemove
    /\ IsSome(last.ret)
    /\ last.index \in Occupied(PreItems) \cap Occupied(PostItems)

\* What the call asked for: the amount, or one for remove_item.
Requested == IF IsRemoveItems THEN last.amount ELSE 1

\* C23: an item split off a stack by remove_item or remove_items, of the
\* inventory or of the bank, has the name, the item type and the stackable
\* flag of the stack, and exactly the requested quantity.
C23_SplitKeepsIdentity ==
    SplitOff =>
        LET stack == Unwrap(PreItems[last.index])
            taken == Unwrap(last.ret)
        IN  /\ taken.name = stack.name
            /\ taken.item_type = stack.item_type
            /\ taken.stackable = stack.stackable
            /\ taken.quantity = Requested

(***************************************************************************)
(* Arrival at the destination (checked under SpecGame)                     *)
(***************************************************************************)

\* The ongoing action that a pending action starts.
StartedBy(intent) ==
    CASE intent = "ChopTree" -> "ChoppingTree"
      [] intent = "Attack" -> "Fighting"
      [] intent = "Fish" -> "Fishing"
      [] OTHER -> "None"

\* C26: when update_movement arrives (destination within 40) the destination
\* and the pending action are cleared; an ongoing action is started only for
\* a target that is still valid (the tree exists and is not fallen, a living
\* creature is near the player, a spot is near the clicked point), and it is
\* the action of the pending intent; otherwise the player ends idle.
C26_ArrivalResolvesIntent ==
    (last.op = "update" /\ last.arrival # NoArrival) =>
        /\ last.arrival.cleared
        /\ last.arrival.started =>
               /\ last.arrival.valid
               /\ last.arrival.ongoing = StartedBy(last.arrival.intent)
        /\ ~last.arrival.started => last.arrival.ongoing = "None"

(***************************************************************************)
(* The chase: an action whose target is out of range when its timer        *)
(* expires                                                                 *)
(***************************************************************************)

\* The frame time of the chase runs: 0.2 s, a step of 48, so that a walk
\* cannot step over the 80 wide band around its destination.
ChaseDtChoices == {20}

\* How far the second goblin stands from the player's start: a walk of one
\* step ends 39 or exactly 40 short of it.
ChaseFar == {87, 88}

\* Two goblins one hit from death: the first within range of the player's
\* start, the second further off.
ChaseCamp(far) == <<Wounded(NewGoblin(PlayerStart - 24), 9), Wounded(NewGoblin(PlayerStart + far), 9)>>

\* The player gives input only while idle: no action under way, no walk.
Idle == ongoing_action.kind = "None" /\ target_x = None

InitChase ==
    /\ steps = 0
    /\ panicked = FALSE
    /\ subject = "Inventory"
    /\ bank = EmptySlots(BankCapacity)
    /\ selected_bank_slot = None
    /\ selected_inventory_slot = None
    /\ player_x = PlayerStart
    /\ player_y = 0
    /\ camera_x = PlayerStart - 512
    /\ target_x = None
    /\ target_y = None
    /\ pending_action = PendingNone
    /\ ongoing_action = OngoingNone
    /\ action_timer = TimerFloor
    /\ \E far \in ChaseFar : entities = ChaseCamp(far)
    /\ world_objects = <<>>
    /\ skills = SkillsNew
    /\ inventory = EmptySlots(InvCapacity)
    /\ dropped_items = <<>>
    /\ player_combat = CombatNew(20)
    /\ context_menu = HiddenMenu
    /\ fishing_spots = <<>>
    /\ fishing_spot_timer = 0
    /\ equipment = EquipmentNew
    /\ last = NoGameRecord

ChaseUpdate == \E dt \in ChaseDtChoices : Frame(dt, FALSE, "frames")

NextChase ==
    \/ ChaseUpdate
    \/ Idle /\ \E wx \in ClickXs : LeftClickWorld(wx)
    \/ Idle /\ \E wx \in ClickXs : RightClickWorld(wx)
    \/ Idle /\ \E i \in 1 .. 4, offset \in MenuOffsets : ClickMenuEntry(i, offset)
    \/ Idle /\ ClickOutsideMenu

\* Frames keep coming: the event loop calls update for every frame.  (A
\* frame is always possible and always changes the parity of the frames.)
SpecChase == InitChase /\ [][NextChase]_vars /\ WF_vars(ChaseUpdate)

\* The arms that find the target out of range and walk to it again.
FarArms == {"chop_far", "fight_far", "fish_far"}

CombatCadence == 240
FishCadence == 300

\* The two scenes of the runs: a player by the pond with a rod and room for
\* one catch, and a player in a camp with a wounded goblin within range.
CadenceScenes ==
    {[subject |-> "Pond", player_x |-> PondStart, entities |-> <<>>,
      inventory |-> InventoryWith(<<fishing_rod>> \o [i \in 1 .. InvCapacity - 2 |-> logs])],
     [subject |-> "Camp", player_x |-> PlayerStart,
      entities |-> <<Wounded(NewGoblin(PlayerStart + 24), 7)>>,
      inventory |-> EmptySlots(InvCapacity)]}

InitCadence ==
    /\ steps = 0
    /\ panicked = FALSE
    /\ bank = EmptySlots(BankCapacity)
    /\ selected_bank_slot = None
    /\ selected_inventory_slot = None
    /\ \E scene \in CadenceScenes :
          /\ subject = scene.subject
          /\ player_x = scene.player_x
          /\ player_y = 0
          /\ camera_x = scene.player_x - 512
          /\ entities = scene.entities
          /\ inventory = scene.inventory
    /\ target_x = None
    /\ target_y = None
    /\ pending_action = PendingNone
    /\ ongoing_action = OngoingNone
    /\ action_timer = TimerFloor
    /\ world_objects = <<>>
    /\ skills = SkillsNew
    /\ dropped_items = <<>>
    /\ player_combat = CombatNew(20)
    /\ context_menu = HiddenMenu
    /\ fishing_spots = <<>>
    /\ fishing_spot_timer = 0
    /\ equipment = EquipmentNew
    /\ last = NoGameRecord

\* Where the player of a scene clicks: on the pond spot, on the goblin.
CadenceClickX == IF subject = "Pond" THEN PondStart ELSE PlayerStart + 24

\* A frame that keeps the time between the attempts.
CadenceUpdate == \E dt \in PondDtChoices : Frame(dt, subject = "Pond", "gaps")

NextCadence ==
    \/ CadenceUpdate
    \/ LeftClickWorld(CadenceClickX)
    \/ RightClickWorld(CadenceClickX)
    \/ \E i \in 1 .. 4, offset \in MenuOffsets : ClickMenu(i, offset)
    \/ ClickOutsideMenu

SpecCadence == InitCadence /\ [][NextCadence]_vars

\* The cadence of the action under way, for the two actions whose cadence is
\* fixed.
CadenceOf(kind) == IF kind = "Fighting" THEN CombatCadence ELSE FishCadence

\* The attempts of a combat round and of fishing.
TimedAttempts == {"fight_round", "fish_caught", "fish_failed", "fish_full"}

IsRaw(item) == item.item_type.sub \in {"RawFish", "RawBeef"}

\* The burn chance try_cook computes, in hundredths: 0.6 (fish) or 0.4 (beef)
\* less 0.02 a cooking level, and 0 from the burn level on.  The f64
\* difference is exactly 0.0 where the hundredths are 0 (0.4 - 20.0 * 0.02).
BurnChance(raw_item, cooking_level) ==
    IF cooking_level >= raw_item.item_type.burn_level THEN 0
    ELSE (IF raw_item.item_type.sub = "RawFish" THEN 60 ELSE 40) - cooking_level * 2

\* rng.gen_bool(p) aborts for a p outside [0, 1].
GenBoolPanics(chance) == chance < 0 \/ chance > 100

\* The values rng.gen_bool(p) can return for a p inside [0, 1].
GenBool(chance) == {b \in BOOLEAN : (b => chance > 0) /\ (~b => chance < 100)}

\* Fire::try_cook: the items it can return, or an abort in gen_bool.
TryCook(raw_item, cooking_level) ==
    IF IsRaw(raw_item) /\ cooking_level >= raw_item.item_type.n
    THEN LET chance == BurnChance(raw_item, cooking_level)
             burnt == IF raw_item.item_type.sub = "RawFish" THEN burnt_fish ELSE burnt_beef
             cooked == IF raw_item.item_type.sub = "RawFish" THEN cooked_fish ELSE cooked_beef
         IN  IF GenBoolPanics(chance)
             THEN [panics |-> TRUE, rets |-> {}]
             ELSE [panics |-> FALSE,
                   rets |-> {Some(IF b THEN burnt ELSE cooked) : b \in GenBool(chance)}]
    ELSE [panics |-> FALSE, rets |-> {None}]

CookItems == {raw_shrimp, raw_trout, raw_beef, logs}

CookRecord(op, ret) == [op |-> op, ret |-> ret]

\* The item in the first slot is cooked at the player's cooking level.
CallTryCook ==
    LET cooked == TryCook(Unwrap(inventory[0]), skills.cooking.level)
    IN  /\ last.op = "none"
        /\ \/ /\ cooked.panics
              /\ panicked' = TRUE
              /\ last' = CookRecord("try_cook", None)
           \/ /\ ~cooked.panics
              /\ UNCHANGED panicked
              /\ \E ret \in cooked.rets : last' = CookRecord("try_cook", ret)
        /\ UNCHANGED <<skills, steps, subject, inventory, bank>>
        /\ UiUnchanged

InitCooking ==
    /\ \E level \in 1 .. MaxLevel : skills = [SkillsNew EXCEPT !.cooking.level = level]
    /\ steps = 0
    /\ panicked = FALSE
    /\ subject = "Fire"
    /\ \E raw_item \in CookItems : inventory = InventoryWith(<<raw_item>>)
    /\ bank = EmptySlots(BankCapacity)
    /\ last = CookRecord("none", None)
    /\ selected_bank_slot = None
    /\ selected_inventory_slot = None
    /\ WorldNew

NextCooking == CallTryCook

SpecCooking == InitCooking /\ [][NextCooking]_vars

\* The raw item of the run and the requirement it states.
CookedItem == Unwrap(inventory[0])
CookingRequirementMet == IsRaw(CookedItem) /\ skills.cooking.level >= CookedItem.item_type.n

\* C25: for every cooking level 1..99 and every raw item whose cooking
\* requirement is met, the burn chance try_cook computes lies in [0, 1] and
\* is 0 at or above the burn level, and try_cook returns a cooked or a burnt
\* item and does not abort.
C25_CookingNeverAborts ==
    (last.op = "try_cook" /\ CookingRequirementMet) =>
        /\ BurnChance(CookedItem, skills.cooking.level) \in 0 .. 100
        /\ skills.cooking.level >= CookedItem.item_type.burn_level =>
               BurnChance(CookedItem, skills.cooking.level) = 0
        /\ ~panicked
        /\ last.ret \in {Some(cooked_fish), Some(burnt_fish),
                         Some(cooked_beef), Some(burnt_beef)}

(***************************************************************************)
(* The Combat interface: new, take_damage, heal, is_dead                   *)
(***************************************************************************)

MaxHealthChoices == {1, 20}

\* Damage and healing amounts: none, small, and the largest i32.
AmountChoices == {0, 1, 7, I32Max}

VitalsRecord(op, amount) == [op |-> op, amount |-> amount, pre |-> player_combat]

OnlyCombatChanges ==
    UNCHANGED <<skills, steps, subject, inventory, bank,
                selected_bank_slot, selected_inventory_slot, player_x, player_y,
                camera_x, target_x, target_y, pending_action, ongoing_action,
                action_timer, entities, world_objects, dropped_items,
                context_menu, fishing_spots, fishing_spot_timer, equipment>>

\* The runs end once the health has left 0 .. max_health.
HealthInRange == player_combat.health \in 0 .. player_combat.max_health

\* health - damage stays in i32 for a health and a damage of 0 or more.
CallTakeDamage(damage) ==
    /\ ~panicked
    /\ HealthInRange
    /\ player_combat' = TakeDamage(player_combat, damage)
    /\ last' = VitalsRecord("take_damage", damage)
    /\ UNCHANGED panicked
    /\ OnlyCombatChanges

\* An overflowing sum aborts a build with overflow checks (debug) and wraps
\* in a build without them (release).
CallHeal(amount) ==
    /\ ~panicked
    /\ HealthInRange
    /\ last' = VitalsRecord("heal", amount)
    /\ \/ /\ player_combat' = Heal(player_combat, amount)
          /\ UNCHANGED panicked
       \/ /\ AddOverflows(player_combat.health, amount)
          /\ panicked' = TRUE
          /\ UNCHANGED player_combat
    /\ OnlyCombatChanges

InitVitals ==
    /\ skills = SkillsNew
    /\ steps = 0
    /\ panicked = FALSE
    /\ subject = "Combat"
    /\ inventory = EmptySlots(InvCapacity)
    /\ bank = EmptySlots(BankCapacity)
    /\ selected_bank_slot = None
    /\ selected_inventory_slot = None
    /\ player_x = 512
    /\ player_y = 0
    /\ camera_x = 0
    /\ target_x = None
    /\ target_y = None
    /\ pending_action = PendingNone
    /\ ongoing_action = OngoingNone
    /\ action_timer = 0
    /\ entities = <<>>
    /\ world_objects = <<>>
    /\ dropped_items = <<>>
    /\ \E max_health \in MaxHealthChoices : player_combat = CombatNew(max_health)
    /\ context_menu = HiddenMenu
    /\ fishing_spots = <<>>
    /\ fishing_spot_timer = 0
    /\ equipment = EquipmentNew
    /\ last = VitalsRecord("none", 0)

NextVitals ==
    \/ \E damage \in AmountChoices : CallTakeDamage(damage)
    \/ \E amount \in AmountChoices : CallHeal(amount)

SpecVitals == InitVitals /\ [][NextVitals]_vars

\* health - damage floored at 0, and health + amount capped at max_health,
\* as numbers (no i32 arithmetic).
SaturatedDamage(combat, damage) == IF damage >= combat.health THEN 0 ELSE combat.health - damage
SaturatedHeal(combat, amount) ==
    IF amount >= combat.max_health - combat.health
    THEN combat.max_health ELSE combat.health + amount

\* C24: for a Combat made by new(m), m > 0, after any take_damage(d >= 0) and
\* heal(a >= 0) calls: 0 <= health <= max_health, take_damage saturates at 0,
\* heal saturates at max_health, no call aborts, and is_dead() is true
\* exactly when health = 0.
C24_HealthStaysInRange ==
    /\ ~panicked
    /\ 0 <= player_combat.health
    /\ player_combat.health <= player_combat.max_health
    /\ last.op = "take_damage" =>
           player_combat.health = SaturatedDamage(last.pre, last.amount)
    /\ last.op = "heal" => player_combat.health = SaturatedHeal(last.pre, last.amount)
    /\ IsDead(player_combat) <=> player_combat.health = 0

(***************************************************************************)
(* save.rs and GameState::new: the save snapshot and the restore from it   *)
(***************************************************************************)

\* create_save_data as save_game calls it: the position, the skills, the two
\* combat numbers, the inventory, the equipment and the bank.
CreateSaveData(x, sk, combat, inv, eq, bnk) ==
    [player_x |-> x, skills |-> sk, health |-> combat.health,
     max_health |-> combat.max_health, inventory |-> inv, equipment |-> eq,
     bank |-> bnk]

\* The items GameState::new hands a player whose inventory is all empty.
StarterKit ==
    <<bronze_sword, bronze_helmet, bronze_platebody, bronze_platelegs,
      bronze_axe, tinderbox, fishing_rod, gp(1000)>>

\* add_item of each item in turn, the results ignored.
RECURSIVE AddEach(_, _)
AddEach(items, kit) ==
    IF kit = <<>> THEN items
    ELSE AddEach(InventoryAddItem(items, Head(kit)).items, Tail(kit))

\* The load branch of GameState::new, up to spawn_world_objects.
LoadedState(save) ==
    [player_x |-> save.player_x,
     skills |-> save.skills,
     player_combat |-> CombatNew(save.max_health),
     inventory |-> IF \A i \in DOMAIN save.inventory : save.inventory[i] = None
                   THEN AddEach(save.inventory, StarterKit)
                   ELSE save.inventory,
     equipment |-> save.equipment,
     bank |-> save.bank]

\* The saved fields of the running game.
SavedFields ==
    [player_x |-> player_x, skills |-> skills, player_combat |-> player_combat,
     inventory |-> inventory, equipment |-> equipment, bank |-> bank]

SaveRecord(op, save, before) == [op |-> op, save |-> save, before |-> before]

\* Damage of the hits the player takes in the save runs.
HitChoices == {7}

\* A creature's hit lands on the player (Combat::take_damage).
PlayerTakesDamage(damage) ==
    /\ player_combat' = TakeDamage(player_combat, damage)
    /\ last' = SaveRecord("hit", last.save, last.before)
    /\ UNCHANGED <<skills, steps, panicked, subject, inventory, bank,
                   selected_bank_slot, selected_inventory_slot, player_x, player_y,
                   camera_x, target_x, target_y, pending_action, ongoing_action,
                   action_timer, entities, world_objects, dropped_items,
                   context_menu, fishing_spots, fishing_spot_timer, equipment>>

\* save_game (the S key): the snapshot is written to the save file.
SaveGame ==
    /\ last' = SaveRecord("save_game",
                          Some(CreateSaveData(player_x, skills, player_combat,
                                              inventory, equipment, bank)),
                          Some(SavedFields))
    /\ UNCHANGED <<skills, steps, panicked, subject, inventory, bank,
                   selected_bank_slot, selected_inventory_slot>>
    /\ WorldUnchanged

\* The world spawn_world_objects builds for a started game.
SpawnedObjects == <<NewTree(288), NewTree(552)>>
SpawnedEntities == <<NewGoblin(356)>>

\* The game is started again with the save file in place: GameState::new.
LoadGame ==
    /\ IsSome(last.save)
    /\ LET state == LoadedState(Unwrap(last.save))
       IN  /\ player_x' = state.player_x
           /\ skills' = state.skills
           /\ player_combat' = state.player_combat
           /\ inventory' = state.inventory
           /\ equipment' = state.equipment
           /\ bank' = state.bank
    /\ camera_x' = 0
    /\ target_x' = None
    /\ UNCHANGED <<player_y, target_y>>
    /\ pending_action' = PendingNone
    /\ ongoing_action' = OngoingNone
    /\ action_timer' = 0
    /\ entities' = SpawnedEntities
    /\ world_objects' = SpawnedObjects
    /\ dropped_items' = <<>>
    /\ context_menu' = HiddenMenu
    /\ fishing_spots' = <<>>
    /\ fishing_spot_timer' = 0
    /\ selected_bank_slot' = None
    /\ selected_inventory_slot' = None
    /\ last' = SaveRecord("load_game", last.save, last.before)
    /\ UNCHANGED <<steps, panicked, subject>>

\* The players of the save runs: what they carry, wear and have banked.
SavePlayers ==
    [inventory : {EmptySlots(InvCapacity), InventoryWith(<<gp(2), logs>>)},
     equipment : {EquipmentNew, EquipWeapon(EquipmentNew, bronze_sword).equipment},
     bank : {EmptySlots(BankCapacity),
             [EmptySlots(BankCapacity) EXCEPT ![0] = Some(bronze_axe)]},
     skills : {SkillsNew, GainedSkills(SkillsNew, "fishing", 100)},
     player_x : {512, 200}]

InitSave ==
    /\ steps = 0
    /\ panicked = FALSE
    /\ subject = "Save"
    /\ \E player \in SavePlayers :
          /\ inventory = player.inventory
          /\ equipment = player.equipment
          /\ bank = player.bank
          /\ skills = player.skills
          /\ player_x = player.player_x
          /\ player_y = 0
    /\ player_combat = CombatNew(20)
    /\ camera_x = 0
    /\ target_x = None
    /\ target_y = None
    /\ pending_action = PendingNone
    /\ ongoing_action = OngoingNone
    /\ action_timer = 0
    /\ entities = SpawnedEntities
    /\ world_objects = SpawnedObjects
    /\ dropped_items = <<>>
    /\ context_menu = HiddenMenu
    /\ fishing_spots = <<>>
    /\ fishing_spot_timer = 0
    /\ selected_bank_slot = None
    /\ selected_inventory_slot = None
    /\ last = SaveRecord("none", None, None)

NextSave ==
    \/ \E damage \in HitChoices : PlayerTakesDamage(damage)
    \/ SaveGame
    \/ LoadGame

SpecSave == InitSave /\ [][NextSave]_vars

\* C22: restoring from a snapshot built from the game state yields the same
\* player position, skills, combat vitals (current health and max_health),
\* inventory, equipment and bank as the state the snapshot was built from.
C22_SnapshotRoundTrip ==
    last.op = "load_game" => SavedFields = Unwrap(last.before)

(***************************************************************************)
(* world.rs Tree: try_chop and update                                      *)
(***************************************************************************)

\* The health of a new tree, and the time a fallen tree takes to grow back.
TreeHealth == 3
RespawnTime == 3000

\* Tree::new
TreeNew(x) ==
    [x |-> x, health |-> TreeHealth, respawn_timer |-> None, tree_type |-> "Normal",
     fallen |-> FALSE]

\* Tree::is_chopped
TreeIsChopped(tree) ==
    IF tree.tree_type = "Normal" THEN tree.health = 0 ELSE FALSE

\* Tree::try_chop that fells the tree and starts no timer.
TreeTryChopNoTimer(tree, sk, axe) ==
    IF TreeIsChopped(tree) \/ tree.tree_type = "Wall"
    THEN [tree |-> tree, ret |-> FALSE]
    ELSE IF /\ IsSome(axe)
            /\ Unwrap(axe).item_type.cat = "Tool"
            /\ Unwrap(axe).item_type.sub = "Axe"
            /\ sk.woodcutting.level >= Unwrap(axe).item_type.n
         THEN [tree |-> [tree EXCEPT !.health = (@ - 1) % 256,
                                     !.fallen = tree.health = 1],
               ret |-> TRUE]
         ELSE [tree |-> tree, ret |-> FALSE]

\* Tree::try_chop: the health is a u8, and `self.health -= 1` is reached
\* only with a health that is_chopped found different from 0.
TreeTryChop(tree, sk, axe) ==
    IF TreeIsChopped(tree) \/ tree.tree_type = "Wall"
    THEN [tree |-> tree, ret |-> FALSE]
    ELSE IF /\ IsSome(axe)
            /\ Unwrap(axe).item_type.cat = "Tool"
            /\ Unwrap(axe).item_type.sub = "Axe"
            /\ sk.woodcutting.level >= Unwrap(axe).item_type.n
         THEN LET chopped == [tree EXCEPT !.health = (@ - 1) % 256]
              IN  [tree |-> IF TreeIsChopped(chopped)
                            THEN [chopped EXCEPT !.fallen = TRUE,
                                                 !.respawn_timer = Some(RespawnTime)]
                            ELSE chopped,
                   ret |-> TRUE]
         ELSE [tree |-> tree, ret |-> FALSE]

\* Tree::update
TreeUpdate(tree, dt) ==
    IF IsSome(tree.respawn_timer)
    THEN IF Unwrap(tree.respawn_timer) - dt <= 0
         THEN [tree EXCEPT !.health = TreeHealth, !.respawn_timer = None,
                           !.fallen = FALSE]
         ELSE [tree EXCEPT !.respawn_timer = Some(Unwrap(@) - dt)]
    ELSE tree

\* The axes handed to try_chop: none, the bronze axe, an axe that asks for
\* woodcutting level 2, and an item that is no axe.
TreeAxes ==
    {None, Some(bronze_axe), Some(logs),
     Some(Item("Bronze Axe", ItemType("Tool", "Axe", 2), FALSE, 1))}

\* The frame times of the tree runs.
TreeDtChoices == {300, 700, 1000}

\* Whether the axe is one the skills can chop with.
SufficientAxe(sk, axe) ==
    /\ IsSome(axe)
    /\ Unwrap(axe).item_type.cat = "Tool"
    /\ Unwrap(axe).item_type.sub = "Axe"
    /\ sk.woodcutting.level >= Unwrap(axe).item_type.n

\* The tree of the runs is the one element of world_objects.
TheTree == world_objects[1]

\* The record of a call: the tree before it, what try_chop returned, and the
\* frame time passed since the tree fell (fallen_for), kept apart from the
\* tree's own timer.
TreeRecord(op, axe, ret, fallen_for) ==
    [op |-> op, axe |-> axe, ret |-> ret, before |-> TheTree, fallen_for |-> fallen_for]

OnlyTreeChanges ==
    UNCHANGED <<skills, steps, panicked, subject, inventory, bank,
                selected_bank_slot, selected_inventory_slot, player_x, player_y,
                camera_x, target_x, target_y, pending_action, ongoing_action,
                action_timer, entities, dropped_items, player_combat,
                context_menu, fishing_spots, fishing_spot_timer, equipment>>

CallTreeTryChop(axe) ==
    LET r == TreeTryChop(TheTree, skills, axe)
    IN  /\ world_objects' = <<r.tree>>
        /\ last' = TreeRecord("try_chop", axe, r.ret,
                              IF r.tree.fallen
                              THEN IF TheTree.fallen THEN last.fallen_for ELSE Some(0)
                              ELSE None)
        /\ OnlyTreeChanges

CallTreeUpdate(dt) ==
    LET tree == TreeUpdate(TheTree, dt)
    IN  /\ world_objects' = <<tree>>
        /\ last' = TreeRecord("update", None, FALSE,
                              IF TheTree.fallen
                              THEN Some(Unwrap(last.fallen_for) + dt) ELSE None)
        /\ OnlyTreeChanges

InitTree ==
    /\ skills = SkillsNew
    /\ steps = 0
    /\ panicked = FALSE
    /\ subject = "Tree"
    /\ inventory = EmptySlots(InvCapacity)
    /\ bank = EmptySlots(BankCapacity)
    /\ selected_bank_slot = None
    /\ selected_inventory_slot = None
    /\ player_x = 512
    /\ player_y = 0
    /\ camera_x = 0
    /\ target_x = None
    /\ target_y = None
    /\ pending_action = PendingNone
    /\ ongoing_action = OngoingNone
    /\ action_timer = 0
    /\ entities = <<>>
    /\ world_objects = <<TreeNew(0)>>
    /\ dropped_items = <<>>
    /\ player_combat = CombatNew(20)
    /\ context_menu = HiddenMenu
    /\ fishing_spots = <<>>
    /\ fishing_spot_timer = 0
    /\ equipment = EquipmentNew
    /\ last = [op |-> "none", axe |-> None, ret |-> FALSE,
               before |-> TreeNew(0), fallen_for |-> None]

NextTree ==
    \/ \E axe \in TreeAxes : CallTreeTryChop(axe)
    \/ \E dt \in TreeDtChoices : CallTreeUpdate(dt)

SpecTree == InitTree /\ [][NextTree]_vars

\* The tree as it is when new.
TreeIsReset(tree) ==
    tree.health = TreeHealth /\ ~tree.fallen /\ tree.respawn_timer = None

\* C30: under any sequence of try_chop and update calls the health of a
\* normal tree stays within 0..3; the tree is fallen exactly when its health
\* is 0 and exactly when its respawn timer is set; try_chop on a fallen tree
\* or without a sufficient axe returns false and changes nothing; and an
\* update resets a fallen tree to health 3, not fallen, no timer, exactly
\* when the frame time passed since it fell has reached 30 s.
C30_TreeLifecycle ==
    /\ TheTree.health \in 0 .. TreeHealth
    /\ TheTree.fallen <=> TheTree.health = 0
    /\ TheTree.fallen <=> IsSome(TheTree.respawn_timer)
    /\ (last.op = "try_chop" /\ last.ret) =>
           TheTree.health = last.before.health - 1
    /\ (/\ last.op = "try_chop"
        /\ (last.before.fallen \/ ~SufficientAxe(skills, last.axe))) =>
           ~last.ret /\ TheTree = last.before
    /\ (last.op = "update" /\ last.before.fallen) =>
           IF Unwrap(last.fallen_for) >= RespawnTime
           THEN TreeIsReset(TheTree)
           ELSE /\ TheTree.fallen
                /\ TheTree.health = 0
    /\ (last.op = "update" /\ ~last.before.fallen) => TheTree = last.before

\* A fallen tree that an update has just reset, later than at 30 s sharp.
C30_Witness ==
    /\ last.op = "update"
    /\ last.before.fallen
    /\ TreeIsReset(TheTree)
    /\ Unwrap(last.fallen_for) > RespawnTime

(***************************************************************************)
(* main.rs update_ongoing_action: the time armed after a chop              *)
(***************************************************************************)

\* The longest and the shortest time between two chops.
BaseChopTime == 300
ChopFloor == 120

\* The woodcutting levels asked for by the axes of the runs.
AxeLevelChoices == {0, 1, 6, 35, 36, 41}

ChopTimeRecord(op, woodcutting_level, time) ==
    [op |-> op, woodcutting_level |-> woodcutting_level, time |-> time]

\* The timer is armed from the player's woodcutting level and the axe's.
CallChopTime ==
    /\ last.op = "none"
    /\ last' = ChopTimeRecord("chop_time", last.woodcutting_level,
                              ChopTime(skills.woodcutting.level, last.woodcutting_level))
    /\ UNCHANGED <<skills, steps, panicked, subject, inventory, bank>>
    /\ UiUnchanged

InitChopTime ==
    /\ \E level \in 1 .. MaxLevel :
          skills = [SkillsNew EXCEPT !.woodcutting.level = level]
    /\ steps = 0
    /\ panicked = FALSE
    /\ subject = "ChopTime"
    /\ inventory = EmptySlots(InvCapacity)
    /\ bank = EmptySlots(BankCapacity)
    /\ \E woodcutting_level \in AxeLevelChoices :
          last = ChopTimeRecord("none", woodcutting_level, 0)
    /\ selected_bank_slot = None
    /\ selected_inventory_slot = None
    /\ WorldNew

NextChopTime == CallChopTime

SpecChopTime == InitChopTime /\ [][NextChopTime]_vars

\* C31: the time armed after a chop that leaves the tree standing is
\* max(3.0 - 0.03 * level - 0.05 * axe level, 1.2) seconds: at least 1.2 and
\* at most 3.0 for every woodcutting level 1..99 and every axe, and not
\* longer than the time armed at any lower woodcutting level.
C31_ChopTimeBounded ==
    last.op = "chop_time" =>
        /\ last.time = Max(BaseChopTime - 3 * skills.woodcutting.level
                               - 5 * last.woodcutting_level, ChopFloor)
        /\ last.time >= ChopFloor
        /\ last.time <= BaseChopTime
        /\ \A lower \in 1 .. skills.woodcutting.level :
               ChopTime(lower, last.woodcutting_level) >= last.time

\* A chop time that the floor has raised.
C31_Witness ==
    /\ last.op = "chop_time"
    /\ last.time = ChopFloor
    /\ BaseChopTime - 3 * skills.woodcutting.level - 5 * last.woodcutting_level < ChopFloor

(***************************************************************************)
(* entity.rs DropTable::roll_drops and the drops of a kill                 *)
(***************************************************************************)

DropTableEntry(item, chance) == [item |-> item, chance |-> chance]

\* EntityType::get_drop_table: the entries with their chances out of 100.
GetDropTable(kind) ==
    IF kind = "Goblin"
    THEN <<DropTableEntry(bones, 100), DropTableEntry(bronze_sword, 5),
           DropTableEntry(bronze_helmet, 5), DropTableEntry(bronze_platebody, 5),
           DropTableEntry(bronze_platelegs, 5), DropTableEntry(bronze_axe, 10),
           DropTableEntry(fishing_rod, 10), DropTableEntry(bait, 25),
           DropTableEntry(tinderbox, 10)>>
    ELSE <<DropTableEntry(raw_beef, 100), DropTableEntry(cow_hide, 100),
           DropTableEntry(bones, 100)>>

\* What `rng.gen_range(0.0..100.0) < entry.chance` can give: the draw is at
\* least 0 and less than 100.
RollPasses(chance) ==
    IF chance >= 100 THEN {TRUE} ELSE IF chance <= 0 THEN {FALSE} ELSE {TRUE, FALSE}

\* A roll that draws once for the whole table and drops one entry at most.
RollDropsOneDraw(entries) ==
    {<<>>} \cup {<<entries[k].item>> : k \in DOMAIN entries}

\* DropTable::roll_drops: one draw for each entry, in the order of the table.
RECURSIVE RollDrops(_)
RollDrops(entries) ==
    IF entries = <<>>
    THEN {<<>>}
    ELSE LET n == Len(entries)
             entry == entries[n]
         IN  {IF pass THEN Append(drops, entry.item) ELSE drops :
                 drops \in RollDrops(SubSeq(entries, 1, n - 1)),
                 pass \in RollPasses(entry.chance)}

\* Entity::new_cow
NewCow(x) ==
    [kind |-> "Cow", x |-> x, spawn_x |-> x, combat |-> CombatNew(8),
     respawn_timer |-> None]

\* Where the creatures of the drop runs stand.
DropXs == {0, 300, 2048}

DropRecord(op, victim, drops) == [op |-> op, victim |-> victim, drops |-> drops]

\* The kill in attack_nearest_entity: the drops of the dead creature are put
\* on the ground at the position read from it before the blow.
KillEntity ==
    /\ last.op = "none"
    /\ entities # <<>>
    /\ LET target == entities[1]
       IN  \E drops \in RollDrops(GetDropTable(target.kind)) :
              /\ entities' = <<Wounded(target, target.combat.health)>>
              /\ dropped_items' =
                     dropped_items \o [k \in DOMAIN drops |->
                                          NewDroppedItem(drops[k], target.x)]
              /\ last' = DropRecord("kill", target, drops)
    /\ UNCHANGED <<skills, steps, panicked, subject, inventory, bank,
                   selected_bank_slot, selected_inventory_slot, player_x, player_y,
                   camera_x, target_x, target_y, pending_action, ongoing_action,
                   action_timer, world_objects, player_combat, context_menu,
                   fishing_spots, fishing_spot_timer, equipment>>

InitDrops ==
    /\ skills = SkillsNew
    /\ steps = 0
    /\ panicked = FALSE
    /\ subject = "Drops"
    /\ inventory = EmptySlots(InvCapacity)
    /\ bank = EmptySlots(BankCapacity)
    /\ selected_bank_slot = None
    /\ selected_inventory_slot = None
    /\ player_x = 512
    /\ player_y = 0
    /\ camera_x = 0
    /\ target_x = None
    /\ target_y = None
    /\ pending_action = [kind |-> "None", index |-> 0]
    /\ ongoing_action = [kind |-> "None", x |-> 0, index |-> 0]
    /\ action_timer = 0
    /\ \E x \in DropXs : entities \in {<<NewGoblin(x)>>, <<NewCow(x)>>}
    /\ world_objects = <<>>
    /\ dropped_items = <<>>
    /\ player_combat = CombatNew(20)
    /\ context_menu = HiddenMenu
    /\ fishing_spots = <<>>
    /\ fishing_spot_timer = 0
    /\ equipment = EquipmentNew
    /\ last = DropRecord("none", None, <<>>)

NextDrops == KillEntity

SpecDrops == InitDrops /\ [][NextDrops]_vars

\* The names of the entries of a table that always drop, and of the others.
SureNames(entries) == {entries[k].item.name : k \in {j \in DOMAIN entries : entries[j].chance >= 100}}
ChanceNames(entries) == {entries[k].item.name : k \in {j \in DOMAIN entries : entries[j].chance < 100}}

\* The names of a sequence of items.
NamesOf(items) == {items[k].name : k \in DOMAIN items}

\* C32: the drops of a kill are rolled entry by entry: each entry of the
\* creature's table is dropped at most once, every entry with chance 100 is
\* dropped (Bones for a goblin; Raw beef, Cow hide and Bones for a cow), the
\* other entries can come in any combination, and every dropped item lies
\* at the position of the killed creature.
C32_DropsRolledPerEntry ==
    last.op = "kill" =>
        LET entries == GetDropTable(last.victim.kind)
        IN  /\ \A k, j \in DOMAIN last.drops :
                   last.drops[k].name = last.drops[j].name => k = j
            /\ NamesOf(last.drops) \subseteq NamesOf([k \in DOMAIN entries |-> entries[k].item])
            /\ SureNames(entries) \subseteq NamesOf(last.drops)
            /\ SureNames(entries) = IF last.victim.kind = "Goblin"
                                    THEN {"Bones"}
                                    ELSE {"Raw beef", "Cow hide", "Bones"}
            /\ {NamesOf(drops) : drops \in RollDrops(entries)}
                   = {SureNames(entries) \cup chosen : chosen \in SUBSET ChanceNames(entries)}
            /\ Len(dropped_items) = Len(last.drops)
            /\ \A k \in DOMAIN dropped_items :
                   /\ dropped_items[k].item = last.drops[k]
                   /\ dropped_items[k].x = last.victim.x

\* A goblin's kill that dropped several entries of its table, at a place
\* other than the origin.
C32_Witness ==
    /\ last.op = "kill"
    /\ last.victim.kind = "Goblin"
    /\ last.victim.x # 0
    /\ Len(last.drops) >= 3
    /\ \A k \in DOMAIN dropped_items : dropped_items[k].x = last.victim.x

(***************************************************************************)
(* main.rs handle_inventory_click: using an item on raw food by a fire     *)
(***************************************************************************)

\* How long a fire burns.
FireLifetime == 6000

\* Fire::new
FireNew(x) == [x |-> x, lifetime |-> FireLifetime]

\* Fire::is_near
FireIsNear(fire, x) == Abs(fire.x - x) < InteractionRange

\* The XP of a dish that is not burnt.
CookingXp == 30

\* The cooking levels of the runs: the first, the ones around the level of
\* the trout, one between 20 and the level at which beef no longer burns, and
\* that level.
CookLevels == {1, 14, 15, 25, 30}

\* The raw items, alone with a tinderbox or in a full inventory.
CookKits ==
    {<<tinderbox, raw_item>> \o filler :
        raw_item \in {raw_shrimp, raw_trout, raw_beef},
        filler \in {<<>>, [i \in 1 .. InvCapacity - 2 |-> logs]}}

\* The fires of the cooking runs are the elements of world_objects: none, one
\* where the player stands, one at the interaction range.
CookFires == {<<>>, <<FireNew(512)>>, <<FireNew(512 + InteractionRange)>>}

CookClickRecord(op, slot, ret) ==
    [op |-> op, slot |-> slot, ret |-> ret, pre_inventory |-> inventory,
     pre_skills |-> skills,
     near |-> \E k \in DOMAIN world_objects : FireIsNear(world_objects[k], player_x)]

\* What the click does once try_cook has given an item: the clicked slot is
\* emptied, the item added, and the XP granted when the add succeeded and
\* the item is not a burnt one.
CookWith(cooked_item, slot) ==
    LET removed == RemoveItem(inventory, slot)
        added == InventoryAddItem(removed.items, cooked_item)
    IN  /\ inventory' = added.items
        /\ skills' = IF added.ok /\ cooked_item.name \notin {"Burnt fish", "Burnt beef"}
                     THEN GainedSkills(skills, "cooking", CookingXp)
                     ELSE skills

\* GameState::handle_inventory_click with the left button on a slot holding
\* raw fish or raw beef while another item is selected (the pair is not
\* tinderbox and logs): the first fire near the player cooks the item.
ClickToCook(slot) ==
    /\ last.op = "none"
    /\ IsSome(selected_inventory_slot)
    /\ IsSome(GetItem(inventory, Unwrap(selected_inventory_slot)))
    /\ IsSome(GetItem(inventory, slot))
    /\ IsRaw(Unwrap(inventory[slot]))
    /\ LET item == Unwrap(inventory[slot])
           near == \E k \in DOMAIN world_objects : FireIsNear(world_objects[k], player_x)
           met == skills.cooking.level >= item.item_type.n
           cooked == TryCook(item, skills.cooking.level)
       IN  IF near /\ met
           THEN \/ /\ cooked.panics
                   /\ panicked' = TRUE
                   /\ last' = CookClickRecord("cook_click", slot, None)
                   /\ UNCHANGED <<inventory, skills, selected_inventory_slot>>
                \/ /\ ~cooked.panics
                   /\ \E ret \in cooked.rets :
                         /\ IF IsSome(ret)
                            THEN CookWith(Unwrap(ret), slot)
                            ELSE UNCHANGED <<inventory, skills>>
                         /\ last' = CookClickRecord("cook_click", slot, ret)
                   /\ selected_inventory_slot' = None
                   /\ UNCHANGED panicked
           ELSE /\ last' = CookClickRecord("cook_click", slot, None)
                /\ selected_inventory_slot' = None
                /\ UNCHANGED <<inventory, skills, panicked>>
    /\ UNCHANGED <<steps, subject, bank, selected_bank_slot>>
    /\ WorldUnchanged

InitCookClick ==
    /\ \E level \in CookLevels :
          skills = [SkillsNew EXCEPT !.cooking = SkillAtLevel(level)]
    /\ steps = 0
    /\ panicked = FALSE
    /\ subject = "Cooking"
    /\ \E kit \in CookKits : inventory = InventoryWith(kit)
    /\ bank = EmptySlots(BankCapacity)
    /\ selected_bank_slot = None
    /\ selected_inventory_slot = Some(0)
    /\ player_x = 512
    /\ player_y = 0
    /\ camera_x = 0
    /\ target_x = None
    /\ target_y = None
    /\ pending_action = [kind |-> "None", index |-> 0]
    /\ ongoing_action = [kind |-> "None", x |-> 0, index |-> 0]
    /\ action_timer = 0
    /\ entities = <<>>
    /\ \E fires \in CookFires : world_objects = fires
    /\ dropped_items = <<>>
    /\ player_combat = CombatNew(20)
    /\ context_menu = HiddenMenu
    /\ fishing_spots = <<>>
    /\ fishing_spot_timer = 0
    /\ equipment = EquipmentNew
    /\ last = [op |-> "none", slot |-> 0, ret |-> None, pre_inventory |-> inventory,
               pre_skills |-> skills, near |-> FALSE]

NextCookClick == \E slot \in 0 .. InvCapacity - 1 : ClickToCook(slot)

SpecCookClick == InitCookClick /\ [][NextCookClick]_vars

\* Whether the click had a fire within range and the level of the item.
CookingPossible ==
    /\ last.near
    /\ last.pre_skills.cooking.level >= Unwrap(last.pre_inventory[last.slot]).item_type.n

\* C33: a click that uses an item on raw fish or raw beef by a fire, with the
\* cooking level of the item met, replaces the raw item by one cooked or
\* burnt item: the inventory holds as many items as before, the add does not
\* fail, and 30 cooking XP are gained exactly when the item is not burnt;
\* without a fire in range or without the level, inventory and skills are
\* as before.
C33_CookingReplacesOneItem ==
    last.op = "cook_click" =>
        IF CookingPossible
        THEN /\ ~panicked
             /\ IsSome(last.ret)
             /\ Unwrap(last.ret) \in {cooked_fish, burnt_fish, cooked_beef, burnt_beef}
             /\ Cardinality(Occupied(inventory)) = Cardinality(Occupied(last.pre_inventory))
             /\ TotalOf(inventory, Unwrap(last.pre_inventory[last.slot]).name)
                    = TotalOf(last.pre_inventory,
                              Unwrap(last.pre_inventory[last.slot]).name) - 1
             /\ TotalOf(inventory, Unwrap(last.ret).name)
                    = TotalOf(last.pre_inventory, Unwrap(last.ret).name) + 1
             /\ skills = IF Unwrap(last.ret) \in {cooked_fish, cooked_beef}
                         THEN GainedSkills(last.pre_skills, "cooking", CookingXp)
                         ELSE last.pre_skills
        ELSE inventory = last.pre_inventory /\ skills = last.pre_skills

(***************************************************************************)
(* main.rs check_collision and update_movement on the plane                *)
(***************************************************************************)

\* The edges of the world and the size of the player's box.
WorldMin == 0 - 512
WorldMax == 2048
PlayerSize == 32

\* WorldObject::new(x, y, ObjectType::Tree), with both coordinates.
NewTreeAt(x, y) ==
    [x |-> x, y |-> y, width |-> 32, height |-> 32, object_type |-> "Tree",
     blocks_movement |-> TRUE, health |-> 3, fallen |-> FALSE]

\* WorldObject::collides_with: the boxes overlap on both axes (the halves of
\* the sizes are avoided by doubling both sides).
CollidesWithBox(obj, x, y, width, height) ==
    /\ obj.blocks_movement
    /\ 2 * obj.x - obj.width < 2 * x + width
    /\ 2 * obj.x + obj.width > 2 * x - width
    /\ 2 * obj.y - obj.height < 2 * y + height
    /\ 2 * obj.y + obj.height > 2 * y - height

\* GameState::check_collision
CheckCollisionAt(objects, x, y) ==
    \E i \in DOMAIN objects : CollidesWithBox(objects[i], x, y, PlayerSize, PlayerSize)

\* The largest distance of the runs, for the square root.
MaxDistance == 4000

\* The whole part of the square root.
ISqrt(n) == CHOOSE r \in 0 .. MaxDistance : r * r <= n /\ (r + 1) * (r + 1) > n

\* (d / distance) * speed, in whole units, rounded towards zero.
MoveComponent(d, distance, speed) ==
    IF d >= 0 THEN (d * speed) \div distance ELSE 0 - (((0 - d) * speed) \div distance)

\* A step that gives up both axes when the new position collides.
StepOnPlaneTogether(objects, px, py, tx, ty, dt) ==
    LET dx == tx - px
        dy == ty - py
        distance == ISqrt(dx * dx + dy * dy)
        new_x == Min(Max(px + MoveComponent(dx, distance, MoveStep(dt)), WorldMin), WorldMax)
        new_y == Min(Max(py + MoveComponent(dy, distance, MoveStep(dt)), WorldMin), WorldMax)
        blocked == CheckCollisionAt(objects, new_x, new_y)
    IN  [x |-> IF blocked THEN px ELSE new_x, y |-> IF blocked THEN py ELSE new_y,
         new_x |-> new_x, new_y |-> new_y]

\* The moving branch of update_movement: the step is clamped to the world and
\* tried on x with the old y, then on y with the x that resulted.
StepOnPlane(objects, px, py, tx, ty, dt) ==
    LET dx == tx - px
        dy == ty - py
        distance == ISqrt(dx * dx + dy * dy)
        new_x == Min(Max(px + MoveComponent(dx, distance, MoveStep(dt)), WorldMin), WorldMax)
        new_y == Min(Max(py + MoveComponent(dy, distance, MoveStep(dt)), WorldMin), WorldMax)
        x == IF CheckCollisionAt(objects, new_x, py) THEN px ELSE new_x
        y == IF CheckCollisionAt(objects, x, new_y) THEN py ELSE new_y
    IN  [x |-> x, y |-> y, new_x |-> new_x, new_y |-> new_y]

\* The frame time of the walks: 0.25 s, a step of 60.
WalkDtChoices == {25}

\* Where the walks start, and where the clicks send the player: past the
\* tree, and beyond the edges of the world.
WalkStarts == {[x |-> 0, y |-> 0], [x |-> 2000, y |-> 0 - 480]}
WalkTargets ==
    {[x |-> 200, y |-> 0], [x |-> 200, y |-> 160], [x |-> 2400, y |-> 0 - 700],
     [x |-> 0 - 100, y |-> 100]}

WalkRecord(op, step) ==
    [op |-> op, pre_x |-> player_x, pre_y |-> player_y, step |-> step]

OnlyWalkChanges ==
    UNCHANGED <<skills, steps, panicked, subject, inventory, bank,
                selected_bank_slot, selected_inventory_slot, camera_x,
                pending_action, ongoing_action, action_timer, entities,
                world_objects, dropped_items, player_combat, context_menu,
                fishing_spots, fishing_spot_timer, equipment>>

\* set_destination with no action, by a player who stands still.
ClickToWalk(target) ==
    /\ target_x = None
    /\ target_x' = Some(target.x)
    /\ target_y' = Some(target.y)
    /\ last' = WalkRecord("click", None)
    /\ UNCHANGED <<player_x, player_y>>
    /\ OnlyWalkChanges

\* update_movement with a destination and no pending action.
WalkFrame(dt) ==
    /\ IsSome(target_x)
    /\ LET dx == Unwrap(target_x) - player_x
           dy == Unwrap(target_y) - player_y
       IN  IF dx * dx + dy * dy > InteractionRange * InteractionRange
           THEN LET step == StepOnPlane(world_objects, player_x, player_y,
                                        Unwrap(target_x), Unwrap(target_y), dt)
                IN  /\ player_x' = step.x
                    /\ player_y' = step.y
                    /\ last' = WalkRecord("walk", Some(step))
                    /\ UNCHANGED <<target_x, target_y>>
           ELSE /\ target_x' = None
                /\ target_y' = None
                /\ last' = WalkRecord("arrive", None)
                /\ UNCHANGED <<player_x, player_y>>
    /\ OnlyWalkChanges

InitWalk ==
    /\ skills = SkillsNew
    /\ steps = 0
    /\ panicked = FALSE
    /\ subject = "Walk"
    /\ inventory = EmptySlots(InvCapacity)
    /\ bank = EmptySlots(BankCapacity)
    /\ selected_bank_slot = None
    /\ selected_inventory_slot = None
    /\ \E start \in WalkStarts : player_x = start.x /\ player_y = start.y
    /\ camera_x = 0
    /\ target_x = None
    /\ target_y = None
    /\ pending_action = [kind |-> "None", index |-> 0]
    /\ ongoing_action = [kind |-> "None", x |-> 0, index |-> 0]
    /\ action_timer = 0
    /\ entities = <<>>
    /\ world_objects = <<NewTreeAt(70, 0)>>
    /\ dropped_items = <<>>
    /\ player_combat = CombatNew(20)
    /\ context_menu = HiddenMenu
    /\ fishing_spots = <<>>
    /\ fishing_spot_timer = 0
    /\ equipment = EquipmentNew
    /\ last = [op |-> "none", pre_x |-> 0, pre_y |-> 0, step |-> None]

WalkUpdate == \E dt \in WalkDtChoices : WalkFrame(dt)

NextWalk ==
    \/ WalkUpdate
    \/ \E target \in WalkTargets : ClickToWalk(target)

SpecWalk == InitWalk /\ [][NextWalk]_vars

\* C34: update_movement never leaves the player on a blocking world object
\* nor outside -512..2048 on either axis; the step is tried on each axis by
\* itself: the x step is taken unless it collides at the old y, and the y
\* step unless it collides at the x that resulted, so that a step blocked on
\* one axis is still taken on the other.
C34_MovementStaysFree ==
    /\ ~CheckCollisionAt(world_objects, player_x, player_y)
    /\ player_x \in WorldMin .. WorldMax
    /\ player_y \in WorldMin .. WorldMax
    /\ last.op = "walk" =>
           LET step == Unwrap(last.step)
           IN  /\ player_x = IF CheckCollisionAt(world_objects, step.new_x, last.pre_y)
                             THEN last.pre_x ELSE step.new_x
               /\ player_y = IF CheckCollisionAt(world_objects, player_x, step.new_y)
                             THEN last.pre_y ELSE step.new_y

\* A step blocked by the tree on x and taken on y.
C34_Witness ==
    /\ last.op = "walk"
    /\ Unwrap(last.step).new_x # last.pre_x
    /\ player_x = last.pre_x
    /\ player_y # last.pre_y

(***************************************************************************)
(* A fight beside a second creature that wanders                           *)
(***************************************************************************)

\* Two goblins one hit from death: the first spawns 44 from the player's
\* start, out of range, the second 24 to the other side, within range.
MeleeCamp == <<Wounded(NewGoblin(PlayerStart - 44), 9), Wounded(NewGoblin(PlayerStart + 24), 9)>>

InitMelee ==
    /\ steps = 0
    /\ panicked = FALSE
    /\ subject = "Melee"
    /\ bank = EmptySlots(BankCapacity)
    /\ selected_bank_slot = None
    /\ selected_inventory_slot = None
    /\ player_x = PlayerStart
    /\ player_y = 0
    /\ camera_x = PlayerStart - 512
    /\ target_x = None
    /\ target_y = None
    /\ pending_action = PendingNone
    /\ ongoing_action = OngoingNone
    /\ action_timer = TimerFloor
    /\ entities = MeleeCamp
    /\ world_objects = <<>>
    /\ skills = SkillsNew
    /\ inventory = EmptySlots(InvCapacity)
    /\ dropped_items = <<>>
    /\ player_combat = CombatNew(20)
    /\ context_menu = HiddenMenu
    /\ fishing_spots = <<>>
    /\ fishing_spot_timer = 0
    /\ equipment = EquipmentNew
    /\ last = NoGameRecord

MeleeUpdate == \E dt \in ChaseDtChoices : Frame(dt, FALSE, "off")

NextMelee ==
    \/ MeleeUpdate
    \/ Idle /\ \E wx \in ClickXs : LeftClickWorld(wx)
    \/ Idle /\ \E wx \in ClickXs : RightClickWorld(wx)
    \/ Idle /\ \E i \in 1 .. 4, offset \in MenuOffsets : ClickMenuEntry(i, offset)
    \/ Idle /\ ClickOutsideMenu

SpecMelee == InitMelee /\ [][NextMelee]_vars

\* C35: in every round of a fight the creature attacked (which is the one
\* that strikes back) is the one Fighting's target_index designates, never
\* another creature that stands earlier in the list and within range.
C35_RoundHitsDesignatedTarget ==
    (last.op = "update" /\ last.ran = "fight_round") => last.victim = Some(last.index)

\* The step is a frame in which the walk to a dropped item arrives.
PickupArrives ==
    /\ last'.op = "update"
    /\ last'.arrival.intent = "PickupItem"
    /\ pending_action.index < Len(dropped_items)

\* DroppedItem::can_pickup fails after the frame's update of the item,
\* whatever the frame time.
StillDelayed(dropped) ==
    \A dt \in DtChoices : DroppedItemUpdate(dropped, dt).pickup_delay > 0

\* The items that lay on the ground before the frame: an item dropped in
\* the frame still has its whole delay.
LayBefore(items) == SelectSeq(items, LAMBDA d : d.pickup_delay < NewDroppedItem(d.item, d.x).pickup_delay)

\* The item leaves the ground exactly when add_item succeeds, and stays
\* with the inventory unchanged when it fails.
PickupMovesItem ==
    LET added == InventoryAddItem(inventory, dropped_items[pending_action.index + 1].item)
    IN  /\ (Len(LayBefore(dropped_items')) < Len(dropped_items)) <=> added.ok
        /\ ~added.ok => inventory' = inventory

\* C36: a dropped item is not picked up before its pickup delay of 1.0 s has
\* elapsed: when the walk of a PickupItem intent arrives while the item's
\* pickup_delay is above 0, the item stays on the ground and the inventory
\* is unchanged; when it arrives after the delay, the item leaves the ground
\* exactly when add_item succeeded, and stays on a full inventory.
C36_PickupWaitsForDelay ==
    [][PickupArrives =>
          IF StillDelayed(dropped_items[pending_action.index + 1])
          THEN Len(LayBefore(dropped_items')) = Len(dropped_items) /\ inventory' = inventory
          ELSE PickupMovesItem]_vars

\* The same with the pickup delay left out.
PickupIgnoringDelay == [][PickupArrives => PickupMovesItem]_vars

\* C37: the starting kit is added only for a new game: a game restored from
\* a save file has the inventory of the save, without the starting items,
\* whatever the saved inventory holds, an empty one included.
C37_RestoredGameGetsNoKit ==
    last.op = "load_game" => inventory = Unwrap(last.save).inventory

(***************************************************************************)
(* Walks across open ground in long frames                                 *)
(***************************************************************************)

\* The frame time of the strolls: 0.4 s, a step of 96.
StrollDtChoices == {40}

\* Where the player of the strolls clicks: 48, 100 and 150 from the start.
StrollXs == {PlayerStart + 48, PlayerStart + 100, PlayerStart - 150}

\* A goblin one hit from death, 100 from the player's start.
StrollCamp == <<Wounded(NewGoblin(PlayerStart + 100), 9)>>

InitStroll ==
    /\ steps = 0
    /\ panicked = FALSE
    /\ subject = "Stroll"
    /\ bank = EmptySlots(BankCapacity)
    /\ selected_bank_slot = None
    /\ selected_inventory_slot = None
    /\ player_x = PlayerStart
    /\ player_y = 0
    /\ camera_x = PlayerStart - 512
    /\ target_x = None
    /\ target_y = None
    /\ pending_action = PendingNone
    /\ ongoing_action = OngoingNone
    /\ action_timer = TimerFloor
    /\ entities = StrollCamp
    /\ world_objects = <<>>
    /\ skills = SkillsNew
    /\ inventory = EmptySlots(InvCapacity)
    /\ dropped_items = <<>>
    /\ player_combat = CombatNew(20)
    /\ context_menu = HiddenMenu
    /\ fishing_spots = <<>>
    /\ fishing_spot_timer = 0
    /\ equipment = EquipmentNew
    /\ last = NoGameRecord

StrollUpdate == \E dt \in StrollDtChoices : Frame(dt, FALSE, "frames")

NextStroll ==
    \/ StrollUpdate
    \/ Idle /\ \E wx \in StrollXs : LeftClickWorld(wx)
    \/ Idle /\ \E wx \in StrollXs : RightClickWorld(wx)
    \/ Idle /\ \E i \in 1 .. 4, offset \in MenuOffsets : ClickMenuEntry(i, offset)
    \/ Idle /\ ClickOutsideMenu

\* Frames keep coming: the event loop calls update for every frame.
SpecStroll == InitStroll /\ [][NextStroll]_vars /\ WF_vars(StrollUpdate)

\* The destination lies inside the world and nothing blocks the way.
OpenWalk ==
    /\ IsSome(target_x)
    /\ Unwrap(target_x) \in WorldMin .. WorldMax
    /\ \A i \in DOMAIN world_objects : ~world_objects[i].blocks_movement

\* C38: movement terminates: with the destination inside the world bounds
\* and no blocking object in the way, a walking player eventually comes
\* within 40 units of the destination, and then the destination is cleared
\* and the pending action consumed (pending_action = None): no pending
\* action is left without a destination.
C38_MovementTerminates ==
    /\ [](target_x = None => pending_action = PendingNone)
    /\ OpenWalk ~> (target_x = None /\ pending_action = PendingNone)

(***************************************************************************)
(* EventHandler::update: the lifetimes of fires and fishing spots            *)
(***************************************************************************)

\* The lifetime of a new fishing spot, and the time between two spawns.
SpotLifetime == 3000
SpawnPeriod == 1000

\* Fire::update
FireUpdate(fire, dt) == [fire EXCEPT !.lifetime = @ - dt]

\* Fire::is_expired
FireIsExpired(fire) == fire.lifetime <= 0

\* self.fires.retain_mut(|fire| { fire.update(dt); !fire.is_expired() })
RetainFires(fires, dt) ==
    SelectSeq([i \in DOMAIN fires |-> FireUpdate(fires[i], dt)],
              LAMBDA fire : ~FireIsExpired(fire))

\* The frame times of the runs: 3 s, 7 s and 10 s.
LifetimeDtChoices == {300, 700, 1000}

\* The fires of the run are kept in world_objects.
LifetimeRecord(op, dt) ==
    [op |-> op, dt |-> dt, spots |-> fishing_spots, timer |-> fishing_spot_timer,
     fires |-> world_objects]

OnlyLifetimesChange ==
    UNCHANGED <<skills, steps, panicked, subject, inventory, bank,
                selected_bank_slot, selected_inventory_slot, player_x, player_y,
                camera_x, target_x, target_y, pending_action, ongoing_action,
                action_timer, entities, dropped_items, player_combat,
                context_menu, equipment>>

\* The tinderbox is used on logs where the player stands: a fire is lit (in
\* the runs, when no fire burns).
LightFire ==
    /\ world_objects = <<>>
    /\ world_objects' = Append(world_objects, FireNew(player_x))
    /\ last' = LifetimeRecord("light_fire", 0)
    /\ UNCHANGED <<fishing_spots, fishing_spot_timer>>
    /\ OnlyLifetimesChange

\* The fires and the fishing spots in EventHandler::update.
LifetimesUpdate(dt) ==
    /\ world_objects' = RetainFires(world_objects, dt)
    /\ \E f \in FishingSpotUpdates(fishing_spots, fishing_spot_timer, dt) :
          /\ fishing_spots' = f.spots
          /\ fishing_spot_timer' = f.timer
    /\ last' = LifetimeRecord("update", dt)
    /\ OnlyLifetimesChange

InitLifetimes ==
    /\ skills = SkillsNew
    /\ steps = 0
    /\ panicked = FALSE
    /\ subject = "Lifetimes"
    /\ inventory = EmptySlots(InvCapacity)
    /\ bank = EmptySlots(BankCapacity)
    /\ selected_bank_slot = None
    /\ selected_inventory_slot = None
    /\ player_x = 512
    /\ player_y = 0
    /\ camera_x = 0
    /\ target_x = None
    /\ target_y = None
    /\ pending_action = PendingNone
    /\ ongoing_action = OngoingNone
    /\ action_timer = 0
    /\ entities = <<>>
    /\ world_objects = <<>>
    /\ dropped_items = <<>>
    /\ player_combat = CombatNew(20)
    /\ context_menu = HiddenMenu
    /\ fishing_spots = <<>>
    /\ fishing_spot_timer = 0
    /\ equipment = EquipmentNew
    /\ last = [op |-> "none", dt |-> 0, spots |-> <<>>, timer |-> 0, fires |-> <<>>]

NextLifetimes ==
    \/ \E dt \in LifetimeDtChoices : LifetimesUpdate(dt)
    \/ LightFire

SpecLifetimes == InitLifetimes /\ [][NextLifetimes]_vars

\* The lifetimes left of the spots (fires) that outlive a frame of dt.
Outliving(list, dt) ==
    SelectSeq([i \in DOMAIN list |-> list[i].lifetime - dt], LAMBDA l : l > 0)

LifetimesOf(list) == [i \in DOMAIN list |-> list[i].lifetime]

\* C39: a fishing spot is gone at the end of the tick in which its 30 s
\* have elapsed, a fire at the end of the tick in which its 60 s have
\* elapsed, and the others stay; a spot is spawned only in a tick in which
\* the 10 s timer runs out, which sets the timer to 10 s again; at the end
\* of every tick at most 3 fishing spots exist.
C39_TimedResourcesBounded ==
    /\ Len(fishing_spots) <= 3
    /\ \A i \in DOMAIN fishing_spots :
           fishing_spots[i].lifetime > 0 /\ fishing_spots[i].lifetime < SpotLifetime
    /\ \A i \in DOMAIN world_objects :
           world_objects[i].lifetime > 0 /\ world_objects[i].lifetime <= FireLifetime
    /\ last.op = "update" =>
           /\ LifetimesOf(world_objects) = Outliving(last.fires, last.dt)
           /\ IF last.timer - last.dt <= 0
              THEN /\ fishing_spot_timer = SpawnPeriod
                   /\ LifetimesOf(fishing_spots) =
                          Outliving(last.spots, last.dt)
                              \o Outliving(<<[lifetime |-> SpotLifetime]>>, last.dt)
              ELSE /\ fishing_spot_timer = last.timer - last.dt
                   /\ LifetimesOf(fishing_spots) = Outliving(last.spots, last.dt)

\* A tick ends with three spots, the oldest of which the tick before the
\* next spawn removes, and a fire has burnt out.
C39_Witness ==
    /\ last.op = "update"
    /\ Len(last.spots) = 3
    /\ Len(fishing_spots) < 3
    /\ last.fires # <<>>
    /\ world_objects = <<>>

====
